---- MODULE Spec2Model ----
(***************************************************************************)
(* A model of the pipeline core of DataOps_Assistant: the condition        *)
(* evaluator, the connectivity probe, the source selector, the             *)
(* specification schema and the REST extraction adapter.                   *)
(*                                                                         *)
(* Python strings are sequences of one-character strings, so that the      *)
(* string operations of the code (in, split, strip) are computed and not   *)
(* assumed.                                                                *)
(***************************************************************************)
EXTENDS Integers, Sequences, FiniteSets, TLC

VARIABLES
    cond_pc, cond_c, cond_e, cond_result, cond_warned,
    probe_pc, probe_source, probe_world, probe_result,
    sel_pc, sel_spec, sel_env, sel_world, enabled_sources, sel_i, sel_j,
    sel_probes, sel_result,
    ps_pc, ps_input, ps_result,
    rest_pc, rest_pagination, page, all_data, rest_requests, rest_last,
    rest_warned, rest_result, rest_file,
    sql_pc, sql_template, params, sql,
    mr_pc, mr_dataset, min_rows, mr_result,
    nr_pc, nr_dataset, columns, max_ratio, nr_examined, nr_result,
    sqlite_table, ws_before, ws_last, ws_result, ws_fallback, ws_calls,
    catalog_exists, runs, sqlite_sequence, cat_last, cat_query, cat_result, cat_outcome,
    cc_pc, cc_lock, cc_pending,
    vs_pc, vs_input, vs_dirs, vs_before, vs_files, vs_result,
    tf_pc, tf_seed, tf_pattern, tf_sql_path, tf_scratch, tf_reads, tf_overwritten,
    ex_stage, ex_config, ex_source, ex_dataset, ex_written, ex_status, ex_error, ex_failed

condVars == <<cond_pc, cond_c, cond_e, cond_result, cond_warned>>
probeVars == <<probe_pc, probe_source, probe_world, probe_result>>
selVars == <<sel_pc, sel_spec, sel_env, sel_world, enabled_sources, sel_i, sel_j,
             sel_probes, sel_result>>
psVars == <<ps_pc, ps_input, ps_result>>
restVars == <<rest_pc, rest_pagination, page, all_data, rest_requests, rest_last,
              rest_warned, rest_result, rest_file>>
sqlVars == <<sql_pc, sql_template, params, sql>>
minVars == <<mr_pc, mr_dataset, min_rows, mr_result>>
nullVars == <<nr_pc, nr_dataset, columns, max_ratio, nr_examined, nr_result>>
sqliteVars == <<sqlite_table, ws_before, ws_last, ws_result, ws_fallback, ws_calls>>
catVars == <<catalog_exists, runs, sqlite_sequence, cat_last, cat_query, cat_result, cat_outcome>>
concVars == <<cc_pc, cc_lock, cc_pending>>
vsVars == <<vs_pc, vs_input, vs_dirs, vs_before, vs_files, vs_result>>
tfVars == <<tf_pc, tf_seed, tf_pattern, tf_sql_path, tf_scratch, tf_reads, tf_overwritten>>
pipeVars == <<ex_stage, ex_config, ex_source, ex_dataset, ex_written, ex_status, ex_error, ex_failed>>
vars == <<condVars, probeVars, selVars, psVars, restVars, sqlVars, minVars, nullVars, sqliteVars, catVars, concVars, vsVars, tfVars, pipeVars>>

None == "None"

(***************************************************************************)
(* Components that take no part in a specification stay idle.              *)
(***************************************************************************)
CondIdle ==
    /\ cond_pc = "idle" /\ cond_c = <<>> /\ cond_e = <<>>
    /\ cond_result = None /\ cond_warned = FALSE
ProbeIdle ==
    /\ probe_pc = "idle" /\ probe_source = None /\ probe_world = None
    /\ probe_result = None
SelIdle ==
    /\ sel_pc = "idle" /\ sel_spec = None /\ sel_env = <<>> /\ sel_world = None
    /\ enabled_sources = <<>> /\ sel_i = 0 /\ sel_j = 0
    /\ sel_probes = <<>> /\ sel_result = None
PsIdle ==
    /\ ps_pc = "idle" /\ ps_input = None /\ ps_result = None
RestIdle ==
    /\ rest_pc = "idle" /\ rest_pagination = None /\ page = 0 /\ all_data = 0
    /\ rest_requests = <<>> /\ rest_last = None /\ rest_warned = FALSE
    /\ rest_result = None /\ rest_file = -1
MinIdle ==
    /\ mr_pc = "idle" /\ mr_dataset = <<>> /\ min_rows = 0 /\ mr_result = None
NullIdle ==
    /\ nr_pc = "idle" /\ nr_dataset = <<>> /\ columns = <<>> /\ max_ratio = <<0, 1>>
    /\ nr_examined = <<>> /\ nr_result = None
SqliteIdle ==
    /\ sqlite_table = [exists |-> FALSE, cols |-> 0, rows |-> <<>>]
    /\ ws_before = [exists |-> FALSE, cols |-> 0, rows |-> <<>>]
    /\ ws_last = [dataset |-> [cols |-> 1, rows |-> <<>>], mode |-> ""]
    /\ ws_result = [kind |-> "none", error |-> "", value |-> ""]
    /\ ws_fallback = FALSE /\ ws_calls = 0
CatIdle ==
    /\ catalog_exists = FALSE /\ runs = <<>> /\ sqlite_sequence = 0
    /\ cat_last = "idle" /\ cat_query = [pipeline |-> "", limit |-> 0]
    /\ cat_result = <<>> /\ cat_outcome = [kind |-> "none", error |-> "", value |-> 0]
\* the invocations that call record_run on one catalog at the same time
MaxProcs == 3
Procs == 1..MaxProcs
NoRow == [run_id |-> 0, pipeline |-> "", status |-> "", started_at |-> 0,
          output_paths |-> <<>>, error_message |-> "",
          passed |-> [none |-> TRUE, list |-> <<>>]]
ConcIdle ==
    /\ cc_pc = [p \in Procs |-> "idle"] /\ cc_lock = 0
    /\ cc_pending = [p \in Procs |-> NoRow]
VsIdle ==
    /\ vs_pc = "idle" /\ vs_input = [present |-> {}, pipeline_name |-> <<>>, sources |-> <<>>]
    /\ vs_dirs = {} /\ vs_before = {} /\ vs_files = {}
    /\ vs_result = [kind |-> "none", error |-> "", path |-> <<>>]
\* the pipeline invocations that run at the same time
MaxInvocations == 2
Invocations == 1..MaxInvocations
TfIdle ==
    /\ tf_pc = [i \in Invocations |-> "idle"] /\ tf_seed = [i \in Invocations |-> 0]
    /\ tf_pattern = [i \in Invocations |-> ""] /\ tf_sql_path = [i \in Invocations |-> ""]
    /\ tf_scratch = {} /\ tf_reads = [i \in Invocations |-> {}] /\ tf_overwritten = {}
PipeIdle ==
    /\ ex_stage = "idle"
    /\ ex_config = [min_rows |-> 0, columns |-> <<>>, max |-> <<0, 1>>, sinks |-> <<>>]
    /\ ex_source = 0 /\ ex_dataset = <<>> /\ ex_written = <<>>
    /\ ex_status = "" /\ ex_error = "" /\ ex_failed = ""
SqlIdle ==
    /\ sql_pc = "idle" /\ sql_template = <<>> /\ params = <<>> /\ sql = <<>>

(***************************************************************************)
(* Python string operations.                                               *)
(***************************************************************************)
Whitespace == {" ", "\t", "\n"}
Quotes == {"'", "\""}

\* s[i:] for a 1-based i
Drop(s, i) == SubSeq(s, i, Len(s))

\* whether sub occurs in s at (1-based) position i
OccursAt(s, sub, i) ==
    /\ i >= 1
    /\ i + Len(sub) - 1 <= Len(s)
    /\ SubSeq(s, i, i + Len(sub) - 1) = sub

\* the position of the first occurrence of sub in s, 0 when there is none
Find(s, sub) ==
    LET hits == {i \in 1..(Len(s) + 1) : OccursAt(s, sub, i)}
    IN  IF hits = {} THEN 0 ELSE CHOOSE i \in hits : \A k \in hits : i <= k

\* sub in s
Contains(s, sub) == Find(s, sub) # 0

\* s.split(sep), sep non-empty: the parts between the non-overlapping
\* occurrences of sep, scanned from the left
RECURSIVE Split(_, _)
Split(s, sep) ==
    LET at == Find(s, sep)
    IN  IF at = 0 THEN <<s>>
        ELSE <<SubSeq(s, 1, at - 1)>> \o Split(Drop(s, at + Len(sep)), sep)

RECURSIVE LStripChars(_, _)
LStripChars(s, chars) ==
    IF s # <<>> /\ Head(s) \in chars THEN LStripChars(Tail(s), chars) ELSE s

RECURSIVE RStripChars(_, _)
RStripChars(s, chars) ==
    IF s # <<>> /\ s[Len(s)] \in chars
    THEN RStripChars(SubSeq(s, 1, Len(s) - 1), chars) ELSE s

\* s.strip(chars)
StripChars(s, chars) == RStripChars(LStripChars(s, chars), chars)

\* s.strip()
Strip(s) == StripChars(s, Whitespace)

(***************************************************************************)
(* String constants of the code and of the inputs.                         *)
(***************************************************************************)
S_true == <<"t", "r", "u", "e">>
S_false == <<"f", "a", "l", "s", "e">>
S_env_eq == <<"e", "n", "v", " ", "=", "=">>
S_eqeq == <<"=", "=">>
S_env == <<"e", "n", "v">>
S_dev == <<"d", "e", "v">>
S_prod == <<"p", "r", "o", "d">>

(***************************************************************************)
(* evaluate_condition(condition, env): the result and whether the warning  *)
(* was printed.                                                            *)
(***************************************************************************)
evaluate_condition(condition, env) ==
    IF condition = S_true THEN [value |-> TRUE, warned |-> FALSE]
    ELSE IF condition = S_false THEN [value |-> FALSE, warned |-> FALSE]
    ELSE IF Contains(condition, S_env_eq)
    THEN \* condition.split("==")[1].strip().strip("'\"")
         [value |-> env = StripChars(Strip(Split(condition, S_eqeq)[2]), Quotes),
          warned |-> FALSE]
    ELSE [value |-> FALSE, warned |-> TRUE]

(***************************************************************************)
(* The conditions and environments the evaluator is run on: the literals,  *)
(* and an equality test with each part varied.                             *)
(***************************************************************************)
Envs == {S_dev, S_prod}

CondPrefixes == {<<>>, <<"n", "o", "t", " ">>}
CondOperators == {<<" ", "=", "=", " ">>, <<"=", "=">>, <<" ", "!", "=", " ">>}
CondQuotes == {<<>>, <<"'">>, <<"\"">>}
CondSuffixes == {<<>>, <<" ", "o", "r", " ", "t", "r", "u", "e">>,
                 <<" ", "=", "=", " ", "'", "p", "r", "o", "d", "'">>}

CondLiterals ==
    {S_true, S_false, <<>>, <<"T", "r", "u", "e">>, S_dev, S_env,
     <<"1", " ", "=", "=", " ", "1">>}

CondInputs ==
    CondLiterals \cup
    {pre \o S_env \o op \o q1 \o v \o q2 \o post :
        pre \in CondPrefixes, op \in CondOperators, q1 \in CondQuotes,
        v \in Envs, q2 \in CondQuotes, post \in CondSuffixes}

CondInit ==
    /\ cond_pc = "call"
    /\ cond_c \in CondInputs
    /\ cond_e \in Envs
    /\ cond_result = None
    /\ cond_warned = FALSE

EvaluateCondition ==
    /\ cond_pc = "call"
    /\ LET r == evaluate_condition(cond_c, cond_e)
       IN  /\ cond_result' = r.value
           /\ cond_warned' = r.warned
    /\ cond_pc' = "done"
    /\ UNCHANGED <<cond_c, cond_e>>
    /\ UNCHANGED <<probeVars, selVars, psVars, restVars, sqlVars, minVars, nullVars, sqliteVars, catVars, concVars, vsVars, tfVars, pipeVars>>

InitCond == CondInit /\ ProbeIdle /\ SelIdle /\ PsIdle /\ RestIdle /\ SqlIdle /\ MinIdle /\ NullIdle /\ SqliteIdle /\ CatIdle /\ ConcIdle /\ VsIdle /\ TfIdle /\ PipeIdle
NextCond == EvaluateCondition
SpecCond == InitCond /\ [][NextCond]_vars

\* an equality test of the grammar: env == '<value>' or env == "<value>"
IsEnvEqualityTest(c, value) ==
    \E q \in Quotes : c = S_env \o <<" ", "=", "=", " ">> \o <<q>> \o value \o <<q>>

\* C5: evaluate_condition(c, e) is true exactly when c is the literal "true" or
\* c is an equality test env == '<value>' (single or double quoted) whose value
\* is e; for every other string it is false.
C5_EvaluateConditionGrammar ==
    cond_pc = "done" =>
        (cond_result <=> (cond_c = S_true \/ IsEnvEqualityTest(cond_c, cond_e)))

(***************************************************************************)
(* test_source_connectivity(source).  A source is a mapping; a key the     *)
(* mapping lacks has the value Missing.  The world says what the file      *)
(* system and the network answer: whether glob finds a file, and what      *)
(* requests.head does.                                                     *)
(***************************************************************************)
Missing == "<missing>"

HeadOutcomes == {"200", "404", "exception"}
ProbeWorlds == [glob : BOOLEAN, head : HeadOutcomes]

\* a Python bool as the text of its value, so that it can stand beside "raise"
PyBool(b) == IF b THEN "True" ELSE "False"

\* the try block (lines 53-64): "True", "False", or "exception" when it raises
ProbeBody(source, world) ==
    IF source.type = Missing THEN "exception"            \* KeyError: 'type'
    ELSE IF source.type = "file"
    THEN IF source.path = Missing THEN "exception"       \* KeyError: 'path'
         ELSE PyBool(world.glob)                            \* len(glob.glob(pattern)) > 0
    ELSE IF source.type = "rest"
    THEN IF source.base_url = Missing \/ source.path = Missing THEN "exception"
         ELSE IF world.head = "exception" THEN "exception"
         ELSE PyBool(world.head = "200")
    ELSE IF source.type = "postgres" THEN "True"
    ELSE "False"

\* the except clause (lines 65-67): its message reads source['name']
ProbeHandler(source) ==
    IF source.name = Missing THEN "raise" ELSE "False"

\* "True", "False", or "raise" when an exception leaves the function
test_source_connectivity(source, world) ==
    LET r == ProbeBody(source, world)
    IN  IF r = "exception" THEN ProbeHandler(source) ELSE r

ProbeSources ==
    [type : {"file", "rest", "postgres", "sqlite", Missing},
     name : {"A", Missing},
     path : {"p", Missing},
     base_url : {"u", Missing},
     enabled_if : {S_true}]

ProbeInit ==
    /\ probe_pc = "call"
    /\ probe_source \in ProbeSources
    /\ probe_world \in ProbeWorlds
    /\ probe_result = None

TestSourceConnectivity ==
    /\ probe_pc = "call"
    /\ probe_result' = test_source_connectivity(probe_source, probe_world)
    /\ probe_pc' = "done"
    /\ UNCHANGED <<probe_source, probe_world>>
    /\ UNCHANGED <<condVars, selVars, psVars, restVars, sqlVars, minVars, nullVars, sqliteVars, catVars, concVars, vsVars, tfVars, pipeVars>>

InitProbe == CondIdle /\ ProbeInit /\ SelIdle /\ PsIdle /\ RestIdle /\ SqlIdle /\ MinIdle /\ NullIdle /\ SqliteIdle /\ CatIdle /\ ConcIdle /\ VsIdle /\ TfIdle /\ PipeIdle
NextProbe == TestSourceConnectivity
SpecProbe == InitProbe /\ [][NextProbe]_vars

\* C6: test_source_connectivity returns a boolean and never raises, whatever the
\* source mapping: an exception, a non-200 answer, a missing field or an unknown
\* type give False, and a postgres source gives True.
C6_ProbeNeverRaises ==
    probe_pc = "done" =>
        /\ probe_result \in {"True", "False"}
        /\ (probe_source.type = "postgres" => probe_result = "True")

(***************************************************************************)
(* select_source(spec, env).  spec.sources is a sequence of sources,       *)
(* spec.primary is source_routing.primary; sel_world[k] is what the probe  *)
(* of spec.sources[k] meets.  enabled_sources holds the indexes (in        *)
(* spec.sources) of the enabled sources, in the order of spec.sources.     *)
(***************************************************************************)
MaxSources == 2
MaxPrimary == 2

SourceNames == {"A", "B"}
Conditions == {S_true, S_env_eq \o <<" ", "'">> \o S_dev \o <<"'">>}

\* the sequences over S of length at most n
SeqsUpTo(S, n) == UNION {[1..m -> S] : m \in 0..n}

\* a source and what its probe meets: a file that is there, a file that is not,
\* a REST endpoint whose HEAD request fails, a database
SourceCases ==
    {<<[type |-> "rest", name |-> n, path |-> "p", base_url |-> "u", enabled_if |-> c],
       [glob |-> FALSE, head |-> "exception"]>> :
        n \in SourceNames, c \in Conditions}
    \cup
    {<<[type |-> "file", name |-> n, path |-> "p", base_url |-> Missing, enabled_if |-> c],
       [glob |-> g, head |-> "200"]>> :
        n \in SourceNames, c \in Conditions, g \in BOOLEAN}
    \cup
    {<<[type |-> "postgres", name |-> n, path |-> Missing, base_url |-> Missing,
        enabled_if |-> c],
       [glob |-> FALSE, head |-> "200"]>> :
        n \in SourceNames, c \in Conditions}

\* lines 31-34 without the test of line 33: every source counts as enabled
EnabledAll(sources, env) == [k \in 1..Len(sources) |-> k]

\* lines 31-34: the enabled sources, in the order of spec['sources']
RECURSIVE EnabledFrom(_, _, _)
EnabledFrom(sources, env, k) ==
    IF k > Len(sources) THEN <<>>
    ELSE (IF evaluate_condition(sources[k].enabled_if, env).value THEN <<k>> ELSE <<>>)
         \o EnabledFrom(sources, env, k + 1)

EnabledSources(sources, env) == EnabledFrom(sources, env, 1)

\* the loops of lines 37-38 nested the other way round: sources outside,
\* priority entries inside
PairsSourceMajor(np, ne) ==
    [n \in 1..(np * ne) |-> <<((n - 1) % np) + 1, ((n - 1) \div np) + 1>>]

\* the pairs <<i, j>> of a position in primary and a position in enabled, in the
\* order the two loops of lines 37-38 visit them
LoopPairs(np, ne) ==
    [n \in 1..(np * ne) |-> <<((n - 1) \div ne) + 1, ((n - 1) % ne) + 1>>]

\* the pairs of the loop that pass line 39, in order
MatchingPairs(spec, enabled) ==
    SelectSeq(LoopPairs(Len(spec.primary), Len(enabled)),
              LAMBDA pr : spec.sources[enabled[pr[2]]].name = spec.primary[pr[1]])

\* the matching pairs the loop has still to visit after <<i, j>>
PairsAfter(spec, enabled, i, j) ==
    SelectSeq(MatchingPairs(spec, enabled),
              LAMBDA pr : pr[1] > i \/ (pr[1] = i /\ pr[2] > j))

\* the function falling off its end, without the raise of line 48
ReturnsNone(spec, enabled) == [kind |-> "return", name |-> None]

\* lines 47-48
NoAvailableSources(spec, enabled) ==
    [kind |-> "raise", error |-> "ValueError",
     enabled |-> [j \in 1..Len(enabled) |-> spec.sources[enabled[j]].name],
     primary |-> spec.primary]

\* lines 41-44 with the test of line 41 negated
AfterProbeInverted(r, name) ==
    IF r = "False" THEN [pc |-> "done", result |-> [kind |-> "return", name |-> name]]
    ELSE IF r = "True" THEN [pc |-> "loop", result |-> [kind |-> "none"]]
    ELSE [pc |-> "done", result |-> [kind |-> "raise", error |-> "KeyError"]]

\* lines 41-44, after a probe of the source for priority entry name returned r:
\* where the function goes next, and its result
AfterProbe(r, name) ==
    IF r = "True" THEN [pc |-> "done", result |-> [kind |-> "return", name |-> name]]
    ELSE IF r = "False" THEN [pc |-> "loop", result |-> [kind |-> "none"]]
    ELSE \* an exception of the probe leaves select_source too
         [pc |-> "done", result |-> [kind |-> "raise", error |-> "KeyError"]]

SelInit ==
    /\ sel_pc = "filter"
    /\ \E cases \in SeqsUpTo(SourceCases, MaxSources) :
          /\ sel_spec \in [sources : {[k \in 1..Len(cases) |-> cases[k][1]]},
                           primary : SeqsUpTo(SourceNames, MaxPrimary)]
          /\ sel_world = [k \in 1..Len(cases) |-> cases[k][2]]
    /\ sel_env \in Envs
    /\ enabled_sources = <<>>
    /\ sel_i = 0
    /\ sel_j = 0
    /\ sel_probes = <<>>
    /\ sel_result = [kind |-> "none"]

\* lines 28-34
SelectFilter ==
    /\ sel_pc = "filter"
    /\ enabled_sources' = EnabledSources(sel_spec.sources, sel_env)
    /\ sel_pc' = "loop"
    /\ UNCHANGED <<sel_spec, sel_env, sel_world, sel_i, sel_j, sel_probes, sel_result>>
    /\ UNCHANGED <<condVars, probeVars, psVars, restVars, sqlVars, minVars, nullVars, sqliteVars, catVars, concVars, vsVars, tfVars, pipeVars>>

\* lines 37-44: the loops advance to the next source whose name is the priority
\* entry's, and probe it
SelectProbe ==
    /\ sel_pc = "loop"
    /\ PairsAfter(sel_spec, enabled_sources, sel_i, sel_j) # <<>>
    /\ LET pr == Head(PairsAfter(sel_spec, enabled_sources, sel_i, sel_j))
           k == enabled_sources[pr[2]]
           r == test_source_connectivity(sel_spec.sources[k], sel_world[k])
       IN  /\ sel_i' = pr[1]
           /\ sel_j' = pr[2]
           /\ sel_probes' = Append(sel_probes, [pos |-> pr[1], src |-> k, result |-> r])
           /\ sel_pc' = AfterProbe(r, sel_spec.primary[pr[1]]).pc
           /\ sel_result' = AfterProbe(r, sel_spec.primary[pr[1]]).result
    /\ UNCHANGED <<sel_spec, sel_env, sel_world, enabled_sources>>
    /\ UNCHANGED <<condVars, probeVars, psVars, restVars, sqlVars, minVars, nullVars, sqliteVars, catVars, concVars, vsVars, tfVars, pipeVars>>

\* lines 46-48: both loops are exhausted
SelectRaise ==
    /\ sel_pc = "loop"
    /\ PairsAfter(sel_spec, enabled_sources, sel_i, sel_j) = <<>>
    /\ sel_result' = NoAvailableSources(sel_spec, enabled_sources)
    /\ sel_pc' = "done"
    /\ UNCHANGED <<sel_spec, sel_env, sel_world, enabled_sources, sel_i, sel_j, sel_probes>>
    /\ UNCHANGED <<condVars, probeVars, psVars, restVars, sqlVars, minVars, nullVars, sqliteVars, catVars, concVars, vsVars, tfVars, pipeVars>>

InitSelect == CondIdle /\ ProbeIdle /\ SelInit /\ PsIdle /\ RestIdle /\ SqlIdle /\ MinIdle /\ NullIdle /\ SqliteIdle /\ CatIdle /\ ConcIdle /\ VsIdle /\ TfIdle /\ PipeIdle
NextSelect == SelectFilter \/ SelectProbe \/ SelectRaise
SpecSelect == InitSelect /\ [][NextSelect]_vars

\* whether spec.sources[k] is enabled for the environment, and whether its probe
\* succeeds
SelEnabled(k) == evaluate_condition(sel_spec.sources[k].enabled_if, sel_env).value
SelReachable(k) == test_source_connectivity(sel_spec.sources[k], sel_world[k]) = "True"

\* priority entry i names an enabled source whose probe succeeds
Usable(i) ==
    \E k \in 1..Len(sel_spec.sources) :
        /\ sel_spec.sources[k].name = sel_spec.primary[i]
        /\ SelEnabled(k)
        /\ SelReachable(k)

UsablePositions == {i \in 1..Len(sel_spec.primary) : Usable(i)}
FirstUsable == CHOOSE i \in UsablePositions : \A q \in UsablePositions : i <= q

\* C1: select_source returns the first name of source_routing.primary (in list
\* order) that names an enabled source whose probe succeeds.
C1_SelectsFirstUsable ==
    (sel_pc = "done" /\ UsablePositions # {}) =>
        sel_result = [kind |-> "return", name |-> sel_spec.primary[FirstUsable]]

\* the fallback: the first priority entry names an enabled source that is
\* unreachable, and the second entry is returned
C1_Witness ==
    /\ sel_pc = "done"
    /\ Len(sel_spec.primary) = 2
    /\ sel_spec.primary[1] # sel_spec.primary[2]
    /\ \E k \in 1..Len(sel_spec.sources) :
          /\ sel_spec.sources[k].name = sel_spec.primary[1]
          /\ SelEnabled(k)
          /\ ~SelReachable(k)
    /\ sel_result = [kind |-> "return", name |-> sel_spec.primary[2]]

\* C2: probes are issued in the order of source_routing.primary: a later entry is
\* probed only after every enabled source of each earlier entry was probed and
\* found unreachable (an absent or disabled one has none), and no probe follows
\* a probe that succeeded.
C2_ProbesInPriorityOrder ==
    \A n \in 1..Len(sel_probes) :
        /\ n < Len(sel_probes) => sel_probes[n].result # "True"
        /\ \A m \in 1..(n - 1) : sel_probes[m].pos <= sel_probes[n].pos
        /\ \A q \in 1..(sel_probes[n].pos - 1) :
              \A k \in 1..Len(sel_spec.sources) :
                  (sel_spec.sources[k].name = sel_spec.primary[q] /\ SelEnabled(k)) =>
                      \E m \in 1..(n - 1) :
                          sel_probes[m] = [pos |-> q, src |-> k, result |-> "False"]

\* a second priority entry is probed after the first one's source failed
C2_Witness ==
    /\ Len(sel_probes) = 2
    /\ sel_probes[1].pos = 1
    /\ sel_probes[1].result = "False"
    /\ sel_probes[2].pos = 2

\* the names of the enabled sources, in the order of spec.sources
RECURSIVE EnabledNamesFrom(_)
EnabledNamesFrom(k) ==
    IF k > Len(sel_spec.sources) THEN <<>>
    ELSE (IF SelEnabled(k) THEN <<sel_spec.sources[k].name>> ELSE <<>>)
         \o EnabledNamesFrom(k + 1)

\* C3: when no priority entry names an enabled source whose probe succeeds,
\* select_source fails with the error that carries the enabled sources' names
\* and the priority list, and it returns a name in no such case.
C3_NoUsableSourceRaises ==
    (sel_pc = "done" /\ UsablePositions = {}) =>
        sel_result = [kind |-> "raise", error |-> "ValueError",
                      enabled |-> EnabledNamesFrom(1), primary |-> sel_spec.primary]

\* every candidate was probed and failed
C3_Witness ==
    /\ sel_pc = "done"
    /\ sel_result.kind = "raise"
    /\ Len(sel_spec.primary) = 2
    /\ Len(sel_probes) = 2
    /\ Len(sel_result.enabled) = 2

\* C4: the probe is invoked only on sources whose enabled_if is true for the
\* environment.
C4_OnlyEnabledProbed ==
    \A n \in 1..Len(sel_probes) : SelEnabled(sel_probes[n].src)

\* the first priority entry names a disabled source, and another source is probed
C4_Witness ==
    /\ Len(sel_probes) >= 1
    /\ \E k \in 1..Len(sel_spec.sources) :
          /\ sel_spec.sources[k].name = sel_spec.primary[1]
          /\ ~SelEnabled(k)
          /\ \A k2 \in 1..Len(sel_spec.sources) :
                sel_spec.sources[k2].name = sel_spec.primary[1] => k2 = k

(***************************************************************************)
(* PipelineSpec(input): the construction of a specification, with the      *)
(* validation pydantic runs on it.  input.present holds the keys the input *)
(* mapping has; the other fields that carry no constraint beyond being     *)
(* required are present or not.                                            *)
(***************************************************************************)
RequiredFields ==
    {"pipeline_name", "schedule", "sources", "source_routing", "transform",
     "outputs", "checks"}

\* class FileSource: type matches ^file$, name and path required
FileSourceOk(d) == d.type = "file" /\ d.name # Missing /\ d.path # Missing

\* class RestSource: type matches ^rest$, name, base_url and path required
RestSourceOk(d) ==
    d.type = "rest" /\ d.name # Missing /\ d.base_url # Missing /\ d.path # Missing

\* class PostgresSource: type matches ^postgres$, name, conn_id and table required
PostgresSourceOk(d) ==
    d.type = "postgres" /\ d.name # Missing /\ d.conn_id # Missing /\ d.table # Missing

\* an element of sources: Union[FileSource, RestSource, PostgresSource]
SourceOk(d) == FileSourceOk(d) \/ RestSourceOk(d) \/ PostgresSourceOk(d)

\* the validator without the test of line 89
validate_sources_accepts_all(v) == {}

\* the validator of sources: the errors it raises on a list of valid sources
validate_sources(v) ==
    IF v = <<>> THEN {<<"sources", "At least one source is required">>} ELSE {}

\* the errors of the sources field
SourcesErrors(input) ==
    IF "sources" \notin input.present THEN {<<"sources", "field required">>}
    ELSE IF \E k \in 1..Len(input.sources) : ~SourceOk(input.sources[k])
    THEN {<<"sources", "invalid element">>}
    ELSE validate_sources(input.sources)

\* the errors of the fields that are only required; pipeline_name: str is one
RequiredErrors(input) ==
    {<<f, "field required">> : f \in (RequiredFields \ {"sources"}) \ input.present}

\* the object, or the ValidationError with every field's errors
PipelineSpec(input) ==
    LET errors == RequiredErrors(input) \cup SourcesErrors(input)
    IN  IF errors = {}
        THEN [ok |-> TRUE, errors |-> {},
              pipeline_name |-> input.pipeline_name, sources |-> input.sources]
        ELSE [ok |-> FALSE, errors |-> errors,
              pipeline_name |-> "", sources |-> <<>>]

SourceDict(type, name, path, base_url, conn) ==
    [type |-> type, name |-> name, path |-> path, base_url |-> base_url,
     conn_id |-> conn, table |-> conn, enabled_if |-> S_true]

\* source mappings: valid ones of each variant, and ones no variant accepts
SchemaSources ==
    {SourceDict("file", "A", "p", Missing, Missing),
     SourceDict("file", "B", "p", Missing, Missing),
     SourceDict("rest", "A", "p", "u", Missing),
     SourceDict("postgres", "B", Missing, Missing, "c"),
     SourceDict("invalid_source_type", "A", "p", Missing, Missing),
     SourceDict("file", "A", Missing, Missing, Missing),
     SourceDict("rest", Missing, "p", "u", Missing)}

PipelineNames == {"", "orders"}

\* the inputs: every required key there, or one of them left out
PsInputs ==
    {[present |-> RequiredFields \ out,
      pipeline_name |-> IF "pipeline_name" \in out THEN "" ELSE n,
      sources |-> IF "sources" \in out THEN <<>> ELSE v] :
        out \in {{}} \cup {{f} : f \in RequiredFields},
        n \in PipelineNames,
        v \in SeqsUpTo(SchemaSources, MaxSources)}

PsInit ==
    /\ ps_pc = "call"
    /\ ps_input \in PsInputs
    /\ ps_result = None

ConstructPipelineSpec ==
    /\ ps_pc = "call"
    /\ ps_result' = PipelineSpec(ps_input)
    /\ ps_pc' = "done"
    /\ UNCHANGED ps_input
    /\ UNCHANGED <<condVars, probeVars, selVars, restVars, sqlVars, minVars, nullVars, sqliteVars, catVars, concVars, vsVars, tfVars, pipeVars>>

InitSchema == CondIdle /\ ProbeIdle /\ SelIdle /\ PsInit /\ RestIdle /\ SqlIdle /\ MinIdle /\ NullIdle /\ SqliteIdle /\ CatIdle /\ ConcIdle /\ VsIdle /\ TfIdle /\ PipeIdle
NextSchema == ConstructPipelineSpec
SpecSchema == InitSchema /\ [][NextSchema]_vars

\* C7: constructing a PipelineSpec whose sources list is empty fails validation,
\* whatever the other fields are.
C7_EmptySourcesRejected ==
    (ps_pc = "done" /\ "sources" \in ps_input.present /\ ps_input.sources = <<>>) =>
        ~ps_result.ok

\* an input whose only fault is the empty sources list is rejected for it
C7_Witness ==
    /\ ps_pc = "done"
    /\ ps_input.present = RequiredFields
    /\ ps_input.pipeline_name # ""
    /\ ps_input.sources = <<>>
    /\ ps_result.errors = {<<"sources", "At least one source is required">>}

\* C8: constructing a PipelineSpec whose pipeline_name is the empty string fails
\* validation; every constructed spec has a non-empty pipeline_name.
C8_EmptyNameRejected ==
    ps_pc = "done" =>
        /\ ("pipeline_name" \in ps_input.present /\ ps_input.pipeline_name = "")
              => ~ps_result.ok
        /\ ps_result.ok => ps_result.pipeline_name # ""

\* C9: every constructed PipelineSpec has pairwise distinct source names.
C9_SourceNamesDistinct ==
    (ps_pc = "done" /\ ps_result.ok) =>
        \A k1, k2 \in 1..Len(ps_result.sources) :
            ps_result.sources[k1].name = ps_result.sources[k2].name => k1 = k2

(***************************************************************************)
(* rest_fetch(base_url, path, pagination, since).  all_data is the number  *)
(* of records accumulated, rest_requests the page numbers requested so     *)
(* far, rest_last the last response.  The server answers each request as   *)
(* it likes.                                                               *)
(***************************************************************************)
MaxRecords == 3
MaxPages == 100
DefaultPageSize == 100

\* the pagination descriptors: none, or one with a page size
Paginations ==
    {[configured |-> FALSE, size |-> 0]} \cup
    {[configured |-> TRUE, size |-> z] : z \in {MaxRecords - 1, MaxRecords}}

\* line 59
PageSize(pagination) == IF pagination.configured THEN pagination.size ELSE DefaultPageSize

\* what a request meets: a transport failure, or a JSON body: a list of n
\* records, a mapping with a list of n records under data/results/items, a
\* mapping that is itself the one record, or a value of another type
Responses ==
    {[kind |-> "fail", n |-> 0], [kind |-> "single", n |-> 1], [kind |-> "scalar", n |-> 0]}
    \cup {[kind |-> k, n |-> n] : k \in {"list", "envelope"}, n \in 0..MaxRecords}

\* lines 79-87: the number of records found in a response, -1 when its format
\* is not one the code handles
Records(response) ==
    IF response.kind \in {"list", "envelope"} THEN response.n
    ELSE IF response.kind = "single" THEN 1
    ELSE -1

\* line 95: whether the loop stops after a page of n records
LastPage(pagination, n) == ~pagination.configured \/ n < PageSize(pagination)

\* the loop without the test of line 101
NoSafetyLimit(p) == FALSE

\* line 101
SafetyLimit(p) == p > MaxPages

\* lines 108-109 left out: an empty dataset is written and returned like any other
RestFinishUnchecked(count, p) ==
    [kind |-> "return", error |-> "", rows |-> count, page |-> p]

\* lines 108-121: after the loop
RestFinish(count, p) ==
    IF count = 0 THEN [kind |-> "raise", error |-> "ValueError", rows |-> 0, page |-> p]
    ELSE [kind |-> "return", error |-> "", rows |-> count, page |-> p]

\* lines 112-118: the rows of the dataset file written for a call that ends with
\* result, -1 when none is written (df.to_parquet is reached only by a call
\* that returns)
RestFile(result) == IF result.kind = "return" THEN result.rows ELSE -1

\* what makes a request fail: requests.get raises, or raise_for_status does
TransportFailures == {"Timeout", "HTTPError"}

RestInit ==
    /\ rest_pc = "request"
    /\ rest_pagination \in Paginations
    /\ page = 1
    /\ all_data = 0
    /\ rest_requests = <<>>
    /\ rest_last = [kind |-> "none", n |-> 0]
    /\ rest_warned = FALSE
    /\ rest_result = [kind |-> "none", error |-> "", rows |-> 0, page |-> 0]
    /\ rest_file = -1

\* lines 105-106 as a break: a failed request ends the loop and what was
\* accumulated is written and returned
RestRequestFailsKeepsPartial ==
    /\ rest_pc = "request"
    /\ rest_requests' = Append(rest_requests, page)
    /\ \E cause \in TransportFailures :
          rest_last' = [kind |-> "fail", n |-> 0, cause |-> cause]
    /\ rest_result' = RestFinish(all_data, page)
    /\ rest_file' = RestFile(RestFinish(all_data, page))
    /\ rest_pc' = "done"
    /\ UNCHANGED <<rest_pagination, page, all_data, rest_warned>>
    /\ UNCHANGED <<condVars, probeVars, selVars, psVars, sqlVars, minVars, nullVars, sqliteVars, catVars, concVars, vsVars, tfVars, pipeVars>>

\* lines 63-106: one turn of the loop whose request fails
RestRequestFails ==
    /\ rest_pc = "request"
    /\ rest_requests' = Append(rest_requests, page)
    /\ \E cause \in TransportFailures :
          /\ rest_last' = [kind |-> "fail", n |-> 0, cause |-> cause]
          /\ rest_result' = [kind |-> "raise", error |-> "ConnectionError", rows |-> 0,
                             page |-> page, cause |-> cause]
    /\ rest_pc' = "done"
    /\ UNCHANGED <<rest_pagination, page, all_data, rest_warned, rest_file>>
    /\ UNCHANGED <<condVars, probeVars, selVars, psVars, sqlVars, minVars, nullVars, sqliteVars, catVars, concVars, vsVars, tfVars, pipeVars>>

\* lines 63-104 and 108-121: one turn of the loop whose request is answered
RestRequestAnswered ==
    /\ rest_pc = "request"
    /\ \E response \in Responses \ {[kind |-> "fail", n |-> 0]} :
          LET n == Records(response)
          IN  /\ rest_requests' = Append(rest_requests, page)
              /\ rest_last' = response
              /\ IF n = -1
                 THEN \* line 87: not a RequestException, it leaves the function
                      /\ rest_result' = [kind |-> "raise", error |-> "ValueError",
                                         rows |-> 0, page |-> page]
                      /\ rest_pc' = "done"
                      /\ UNCHANGED <<page, all_data, rest_warned, rest_file>>
                 ELSE IF n = 0
                 THEN \* line 90
                      /\ rest_result' = RestFinish(all_data, page)
                      /\ rest_file' = RestFile(RestFinish(all_data, page))
                      /\ rest_pc' = "done"
                      /\ UNCHANGED <<page, all_data, rest_warned>>
                 ELSE IF LastPage(rest_pagination, n)
                 THEN \* line 96
                      /\ all_data' = all_data + n
                      /\ rest_result' = RestFinish(all_data + n, page)
                      /\ rest_file' = RestFile(RestFinish(all_data + n, page))
                      /\ rest_pc' = "done"
                      /\ UNCHANGED <<page, rest_warned>>
                 ELSE IF SafetyLimit(page + 1)
                 THEN \* line 103
                      /\ all_data' = all_data + n
                      /\ page' = page + 1
                      /\ rest_warned' = TRUE
                      /\ rest_result' = RestFinish(all_data + n, page + 1)
                      /\ rest_file' = RestFile(RestFinish(all_data + n, page + 1))
                      /\ rest_pc' = "done"
                 ELSE /\ all_data' = all_data + n
                      /\ page' = page + 1
                      /\ UNCHANGED <<rest_pc, rest_warned, rest_result, rest_file>>
    /\ UNCHANGED rest_pagination
    /\ UNCHANGED <<condVars, probeVars, selVars, psVars, sqlVars, minVars, nullVars, sqliteVars, catVars, concVars, vsVars, tfVars, pipeVars>>

InitRest == CondIdle /\ ProbeIdle /\ SelIdle /\ PsIdle /\ RestInit /\ SqlIdle /\ MinIdle /\ NullIdle /\ SqliteIdle /\ CatIdle /\ ConcIdle /\ VsIdle /\ TfIdle /\ PipeIdle
NextRest == RestRequestFails \/ RestRequestAnswered
SpecRest == InitRest /\ [][NextRest]_vars

\* C10: rest_fetch terminates whatever the server does: it requests pages 1, 2,
\* 3, ... in turn, is done after the first page with fewer records than
\* page_size, is done after one request when no pagination is configured, and
\* issues at most 100 requests; having reached the ceiling it warns and returns
\* the dataset.  Each step issues one request, so the bound on the requests and
\* a step being possible until the function is done give termination.
C10_RestFetchTerminates ==
    /\ Len(rest_requests) <= MaxPages
    /\ rest_requests = [k \in 1..Len(rest_requests) |-> k]
    /\ (rest_pc = "request") => ENABLED NextRest
    /\ (Len(rest_requests) >= 1 /\ Records(rest_last) < PageSize(rest_pagination))
          => rest_pc = "done"
    /\ (Len(rest_requests) >= 1 /\ ~rest_pagination.configured) => rest_pc = "done"
    /\ (rest_pc = "done" /\ Len(rest_requests) = MaxPages
          /\ Records(rest_last) >= PageSize(rest_pagination))
          => (rest_warned /\ rest_result.kind = "return")
    /\ rest_warned =>
          (rest_pc = "done" /\ Len(rest_requests) = MaxPages
              /\ rest_result.kind = "return")

\* the ceiling is reached: 100 full pages were requested
C10_Witness ==
    /\ rest_pc = "done"
    /\ rest_warned
    /\ Len(rest_requests) = MaxPages
    /\ rest_result.kind = "return"
    /\ rest_result.rows >= MaxPages * PageSize(rest_pagination)

\* C11: when the first page yields zero records, rest_fetch fails with the
\* no-data error (the ValueError of line 109) and writes no dataset file; the
\* error is not the one of a transport failure.
C11_EmptyFirstPageIsNoData ==
    (rest_pc = "done" /\ Len(rest_requests) = 1 /\ Records(rest_last) = 0) =>
        /\ rest_result.kind = "raise"
        /\ rest_result.error = "ValueError"
        /\ rest_result.error # "ConnectionError"
        /\ rest_file = -1

\* the first page of a paginated source is an empty list
C11_Witness ==
    /\ rest_pc = "done"
    /\ rest_pagination.configured
    /\ rest_requests = <<1>>
    /\ rest_last = [kind |-> "list", n |-> 0]
    /\ rest_result.error = "ValueError"

\* C12: a transport failure on any page request, the first or a later one, makes
\* rest_fetch fail with the connection error that carries the cause; nothing of
\* what was accumulated is written or returned.
C12_TransportFailureRaises ==
    rest_last.kind = "fail" =>
        /\ rest_pc = "done"
        /\ rest_result.kind = "raise"
        /\ rest_result.error = "ConnectionError"
        /\ rest_result.cause = rest_last.cause
        /\ rest_result.rows = 0
        /\ rest_file = -1

\* a later page fails after records were accumulated
C12_Witness ==
    /\ rest_last.kind = "fail"
    /\ Len(rest_requests) >= 2
    /\ all_data > 0
    /\ rest_pc = "done"

(***************************************************************************)
(* run_sql(data_path, sql_path, params): the query it builds.  params is   *)
(* the mapping as the sequence of its <<key, value>> items in the order    *)
(* params.items() gives them (the order of insertion); the keys are        *)
(* distinct.                                                               *)
(***************************************************************************)
MaxTokens == 3

\* s.replace(old, new), old non-empty: the non-overlapping occurrences of old,
\* scanned from the left, are replaced
RECURSIVE Replace(_, _, _)
Replace(s, old, new) ==
    LET at == Find(s, old)
    IN  IF at = 0 THEN s
        ELSE SubSeq(s, 1, at - 1) \o new \o Replace(Drop(s, at + Len(old)), old, new)

\* f"${{{key}}}"
Placeholder(key) == <<"$", "{">> \o key \o <<"}">>

\* lines 104-106: the replacements, one key after the other
RECURSIVE Substitute(_, _)
Substitute(template, items) ==
    IF items = <<>> THEN template
    ELSE Substitute(Replace(template, Placeholder(Head(items)[1]), Head(items)[2]),
                    Tail(items))

K_a == <<"a">>
K_b == <<"b">>
K_c == <<"c">>

\* the pieces templates are made of: placeholders of keys the mapping may have,
\* one of a key it never has, and other text
TemplateTokens ==
    {Placeholder(K_a), Placeholder(K_b), Placeholder(K_c), <<"x">>, <<"$">>}

RECURSIVE Concat(_)
Concat(seqs) == IF seqs = <<>> THEN <<>> ELSE Head(seqs) \o Concat(Tail(seqs))

Templates == {Concat(t) : t \in SeqsUpTo(TemplateTokens, MaxTokens)}

\* the values: plain text, and text that is itself a placeholder
ParamValues == {<<"1">>, Placeholder(K_a), Placeholder(K_b)}

\* the mappings over the keys a and b, in each order of insertion
ParamItems ==
    {<<>>}
    \cup {<<<<k, v>>>> : k \in {K_a, K_b}, v \in ParamValues}
    \cup {<<<<K_a, v>>, <<K_b, w>>>> : v \in ParamValues, w \in ParamValues}
    \cup {<<<<K_b, w>>, <<K_a, v>>>> : v \in ParamValues, w \in ParamValues}

SqlInit ==
    /\ sql_pc = "call"
    /\ sql_template \in Templates
    /\ params \in ParamItems
    /\ sql = <<>>

\* lines 99-106
RunSql ==
    /\ sql_pc = "call"
    /\ sql' = Substitute(sql_template, params)
    /\ sql_pc' = "done"
    /\ UNCHANGED <<sql_template, params>>
    /\ UNCHANGED <<condVars, probeVars, selVars, psVars, restVars, minVars, nullVars, sqliteVars, catVars, concVars, vsVars, tfVars, pipeVars>>

InitSql == CondIdle /\ ProbeIdle /\ SelIdle /\ PsIdle /\ RestIdle /\ SqlInit /\ MinIdle /\ NullIdle /\ SqliteIdle /\ CatIdle /\ ConcIdle /\ VsIdle /\ TfIdle /\ PipeIdle
NextSql == RunSql
SpecSql == InitSql /\ [][NextSql]_vars

\* whether the mapping has key, and the value it maps key to
HasKey(items, key) == \E i \in 1..Len(items) : items[i][1] = key
ValueOf(items, key) == items[CHOOSE i \in 1..Len(items) : items[i][1] = key][2]

\* the keys whose placeholder starts s
KeysAtHead(s, items) ==
    {items[i][1] : i \in {j \in 1..Len(items) : OccursAt(s, Placeholder(items[j][1]), 1)}}

\* the template with each placeholder of a key of the mapping replaced by the
\* key's value, the values and all other text left as they are
RECURSIVE ReplacedOnce(_, _)
ReplacedOnce(s, items) ==
    IF s = <<>> THEN <<>>
    ELSE IF KeysAtHead(s, items) # {}
    THEN LET key == CHOOSE k \in KeysAtHead(s, items) : TRUE
         IN  ValueOf(items, key) \o ReplacedOnce(Drop(s, Len(Placeholder(key)) + 1), items)
    ELSE <<Head(s)>> \o ReplacedOnce(Tail(s), items)

\* C13: the query run_sql executes is the template with every occurrence of
\* ${key}, for each key of the mapping, replaced by the key's value as raw text;
\* placeholders of other keys and all other text are unchanged.
C13_QueryIsTemplateSubstituted ==
    sql_pc = "done" => sql = ReplacedOnce(sql_template, params)

\* the same mapping with its keys in another order
SameMapping(items, other) ==
    /\ Len(other) = Len(items)
    /\ {other[i] : i \in 1..Len(other)} = {items[i] : i \in 1..Len(items)}

\* C29: the query run_sql produces does not depend on the order in which the
\* mapping's keys are iterated, and text inserted as a value is not substituted
\* again: every ordering of the keys yields the same query, for values that
\* contain the text of another key's placeholder too.
C29_SubstitutionOrderIndependent ==
    sql_pc = "done" =>
        \A other \in ParamItems :
            SameMapping(params, other) => Substitute(sql_template, other) = sql

\* template ${b} with b mapped to ${a} and a to 1: the keys taken b first give
\* 1, taken a first give ${a}
C29_OrderChangesQuery ==
    /\ sql_pc = "done"
    /\ sql_template = Placeholder(K_b)
    /\ params = <<<<K_b, Placeholder(K_a)>>, <<K_a, <<"1">>>>>>
    /\ sql = <<"1">>
    /\ Substitute(sql_template, <<<<K_a, <<"1">>>>, <<K_b, Placeholder(K_a)>>>>) = Placeholder(K_a)

(***************************************************************************)
(* The quality checks.  A dataset is a sequence of rows; a row gives each  *)
(* column a value or NULL.                                                 *)
(***************************************************************************)
MaxRows == 5
MaxMinRows == 2

NULL == "NULL"
Columns == {"id", "updated_at"}
Rows == [Columns -> {NULL, "v"}]
Datasets == SeqsUpTo(Rows, MaxRows)

\* SELECT COUNT(*)
CountStar(dataset) == Len(dataset)

\* line 17 with <= for <
BelowMinimumInclusive(actual_rows, minimum) == actual_rows <= minimum

\* line 17
BelowMinimum(actual_rows, minimum) == actual_rows < minimum

\* assert_min_rows(rel_or_path, min_rows): how the call ends
assert_min_rows(dataset, minimum) ==
    IF BelowMinimum(CountStar(dataset), minimum)
    THEN [kind |-> "raise", error |-> "ValueError", check |-> "Row count check failed"]
    ELSE [kind |-> "return", error |-> "", check |-> ""]

MinInit ==
    /\ mr_pc = "call"
    /\ mr_dataset \in Datasets
    /\ min_rows \in 0..MaxMinRows
    /\ mr_result = [kind |-> "none", error |-> "", check |-> ""]

AssertMinRows ==
    /\ mr_pc = "call"
    /\ mr_result' = assert_min_rows(mr_dataset, min_rows)
    /\ mr_pc' = "done"
    /\ UNCHANGED <<mr_dataset, min_rows>>
    /\ UNCHANGED <<condVars, probeVars, selVars, psVars, restVars, sqlVars, nullVars, sqliteVars, catVars, concVars, vsVars, tfVars, pipeVars>>

InitMinRows == CondIdle /\ ProbeIdle /\ SelIdle /\ PsIdle /\ RestIdle /\ SqlIdle /\ MinInit /\ NullIdle /\ SqliteIdle /\ CatIdle /\ ConcIdle /\ VsIdle /\ TfIdle /\ PipeIdle
NextMinRows == AssertMinRows
SpecMinRows == InitMinRows /\ [][NextMinRows]_vars

\* C14: assert_min_rows fails, with the row-count error, exactly when the
\* dataset has fewer than min_rows rows, and passes otherwise.
C14_MinRowsFailsIffBelow ==
    mr_pc = "done" =>
        /\ (Len(mr_dataset) < min_rows) =>
              (mr_result.kind = "raise" /\ mr_result.check = "Row count check failed")
        /\ (Len(mr_dataset) >= min_rows) => mr_result.kind = "return"

\* 5 rows pass min_rows = 1
C14_Witness ==
    /\ mr_pc = "done"
    /\ Len(mr_dataset) = 5
    /\ min_rows = 1
    /\ mr_result.kind = "return"

(***************************************************************************)
(* assert_null_ratio(rel_or_path, columns, max_ratio).  max_ratio is the   *)
(* fraction <<numerator, denominator>>; the ratios compared are exact.     *)
(* nr_examined holds the columns queried so far.                           *)
(***************************************************************************)
ColumnLists ==
    {<<>>, <<"id">>, <<"updated_at">>, <<"id", "updated_at">>, <<"updated_at", "id">>}
MaxRatios == {<<0, 1>>, <<1, 2>>, <<1, 1>>}

\* SELECT COUNT(column)
CountColumn(dataset, column) ==
    Cardinality({i \in 1..Len(dataset) : dataset[i][column] # NULL})

\* line 49 with >= for >
ExceedsInclusive(total_rows, non_null_rows, maximum) ==
    (total_rows - non_null_rows) * maximum[2] >= maximum[1] * total_rows

\* lines 33 and 49, total_rows > 0:
\* (COUNT(*) - COUNT(column)) * 1.0 / COUNT(*) > max_ratio
Exceeds(total_rows, non_null_rows, maximum) ==
    (total_rows - non_null_rows) * maximum[2] > maximum[1] * total_rows

\* with no rows the division of line 33 is by zero: the query fails, or gives
\* NULL and the comparison of line 49 fails
ZeroRowFaults == {"DivisionByZero", "TypeError"}

NullInit ==
    /\ nr_pc = "loop"
    /\ nr_dataset \in Datasets
    /\ columns \in ColumnLists
    /\ max_ratio \in MaxRatios
    /\ nr_examined = <<>>
    /\ nr_result = [kind |-> "none", error |-> "", column |-> ""]

\* lines 27-52: one turn of the loop
CheckColumn ==
    /\ nr_pc = "loop"
    /\ Len(nr_examined) < Len(columns)
    /\ LET column == columns[Len(nr_examined) + 1]
           total_rows == CountStar(nr_dataset)
           non_null_rows == CountColumn(nr_dataset, column)
       IN  /\ nr_examined' = Append(nr_examined, column)
           /\ IF total_rows = 0
              THEN /\ \E fault \in ZeroRowFaults :
                         nr_result' = [kind |-> "raise", error |-> fault, column |-> column]
                   /\ nr_pc' = "done"
              ELSE IF Exceeds(total_rows, non_null_rows, max_ratio)
              THEN /\ nr_result' = [kind |-> "raise", error |-> "ValueError",
                                    column |-> column]
                   /\ nr_pc' = "done"
              ELSE UNCHANGED <<nr_pc, nr_result>>
    /\ UNCHANGED <<nr_dataset, columns, max_ratio>>
    /\ UNCHANGED <<condVars, probeVars, selVars, psVars, restVars, sqlVars, minVars, sqliteVars, catVars, concVars, vsVars, tfVars, pipeVars>>

\* the loop is over: every column passed
NullRatioPassed ==
    /\ nr_pc = "loop"
    /\ Len(nr_examined) = Len(columns)
    /\ nr_result' = [kind |-> "return", error |-> "", column |-> ""]
    /\ nr_pc' = "done"
    /\ UNCHANGED <<nr_dataset, columns, max_ratio, nr_examined>>
    /\ UNCHANGED <<condVars, probeVars, selVars, psVars, restVars, sqlVars, minVars, sqliteVars, catVars, concVars, vsVars, tfVars, pipeVars>>

InitNullRatio == CondIdle /\ ProbeIdle /\ SelIdle /\ PsIdle /\ RestIdle /\ SqlIdle /\ MinIdle /\ NullInit /\ SqliteIdle /\ CatIdle /\ ConcIdle /\ VsIdle /\ TfIdle /\ PipeIdle
NextNullRatio == CheckColumn \/ NullRatioPassed
SpecNullRatio == InitNullRatio /\ [][NextNullRatio]_vars

\* the number of rows of nr_dataset whose column is NULL
NullsIn(column) ==
    Cardinality({i \in 1..Len(nr_dataset) : nr_dataset[i][column] = NULL})

\* the positions in columns of the columns whose null ratio is over max_ratio
FailingPositions ==
    {i \in 1..Len(columns) :
        NullsIn(columns[i]) * max_ratio[2] > max_ratio[1] * Len(nr_dataset)}
FirstFailing == CHOOSE i \in FailingPositions : \A k \in FailingPositions : i <= k

\* C15: on a dataset with at least one row assert_null_ratio fails exactly when
\* some configured column has a null ratio strictly over max_ratio; the columns
\* are examined in configured order and none is examined after the first one
\* that fails.
C15_NullRatioFailsAtFirstExceeding ==
    Len(nr_dataset) >= 1 =>
        /\ nr_examined = SubSeq(columns, 1, Len(nr_examined))
        /\ (nr_pc = "done" /\ FailingPositions = {}) =>
              (nr_result.kind = "return" /\ nr_examined = columns)
        /\ (nr_pc = "done" /\ FailingPositions # {}) =>
              /\ nr_result = [kind |-> "raise", error |-> "ValueError",
                              column |-> columns[FirstFailing]]
              /\ nr_examined = SubSeq(columns, 1, FirstFailing)

\* 2 nulls of 4 rows at max_ratio 0.0: the first column fails and the second is
\* not examined
C15_Witness ==
    /\ nr_pc = "done"
    /\ Len(nr_dataset) = 4
    /\ Len(columns) = 2
    /\ NullsIn(columns[1]) = 2
    /\ max_ratio = <<0, 1>>
    /\ nr_result.kind = "raise"
    /\ nr_examined = <<columns[1]>>

(***************************************************************************)
(* write_sqlite(rel_or_path, db_path, table, mode).  sqlite_table is the   *)
(* destination table of the attached database: absent, or a column count   *)
(* and a sequence of rows.  The database outlives the calls; ws_before is  *)
(* the table as the last call found it, ws_last that call's arguments and  *)
(* ws_fallback whether it ran the except branch of line 145.               *)
(***************************************************************************)
MaxWriteRows == 1
MaxWrites == 2
MaxCols == 2
Absent == [exists |-> FALSE, cols |-> 0, rows |-> <<>>]
WriteDatasets == [cols : 1..MaxCols, rows : SeqsUpTo({"r1", "r2"}, MaxWriteRows)]
Tables == {Absent} \cup {[exists |-> TRUE, cols |-> d.cols, rows |-> d.rows] : d \in WriteDatasets}
Modes == {"merge", "append", "upsert"}
OutputLocation == "db_path#table"

\* line 139 left out
DropSkipped(t) == t

\* line 139: DROP TABLE IF EXISTS
DropIfExists(t) == Absent

\* lines 140 and 146 as CREATE OR REPLACE TABLE
CreateOrReplaceAs(t, dataset) ==
    [table |-> [exists |-> TRUE, cols |-> dataset.cols, rows |-> dataset.rows],
     ok |-> TRUE]

\* lines 140 and 146: CREATE TABLE ... AS SELECT * FROM the dataset; fails when
\* the table exists
CreateAs(t, dataset) ==
    IF t.exists
    THEN [table |-> t, ok |-> FALSE]
    ELSE [table |-> [exists |-> TRUE, cols |-> dataset.cols, rows |-> dataset.rows],
          ok |-> TRUE]

\* line 144: INSERT INTO ... SELECT * FROM the dataset; fails when the table is
\* absent or its column count is not the dataset's
InsertInto(t, dataset) ==
    IF t.exists /\ t.cols = dataset.cols
    THEN [table |-> [t EXCEPT !.rows = t.rows \o dataset.rows], ok |-> TRUE]
    ELSE [table |-> t, ok |-> FALSE]

\* lines 137-148 with the else branch writing as merge does
ModeBranchDefaultMerge(mode) ==
    IF mode = "append" THEN "append" ELSE "merge"

\* lines 137, 141, 147
ModeBranch(mode) ==
    IF mode = "merge" THEN "merge" ELSE IF mode = "append" THEN "append" ELSE "else"

Returned == [kind |-> "return", error |-> "", value |-> OutputLocation]
Raised(error) == [kind |-> "raise", error |-> error, value |-> ""]

\* lines 127-153: the table, the outcome and whether the except branch ran
write_sqlite(t, dataset, mode) ==
    IF ModeBranch(mode) = "merge"
    THEN LET created == CreateAs(DropIfExists(t), dataset)
         IN  [table |-> created.table,
              result |-> IF created.ok THEN Returned ELSE Raised("CatalogException"),
              fallback |-> FALSE]
    ELSE IF ModeBranch(mode) = "append"
    THEN LET inserted == InsertInto(t, dataset)
             created == CreateAs(t, dataset)
         IN  IF inserted.ok
             THEN [table |-> inserted.table, result |-> Returned, fallback |-> FALSE]
             ELSE [table |-> created.table,
                   result |-> IF created.ok THEN Returned ELSE Raised("CatalogException"),
                   fallback |-> TRUE]
    ELSE [table |-> t, result |-> Raised("ValueError"), fallback |-> FALSE]

SqliteInit ==
    /\ sqlite_table \in Tables
    /\ ws_before = Absent
    /\ ws_last = [dataset |-> [cols |-> 1, rows |-> <<>>], mode |-> ""]
    /\ ws_result = [kind |-> "none", error |-> "", value |-> ""]
    /\ ws_fallback = FALSE
    /\ ws_calls = 0

WriteSqlite ==
    /\ ws_calls < MaxWrites
    /\ \E dataset \in WriteDatasets, mode \in Modes :
          LET out == write_sqlite(sqlite_table, dataset, mode)
          IN  /\ sqlite_table' = out.table
              /\ ws_result' = out.result
              /\ ws_fallback' = out.fallback
              /\ ws_last' = [dataset |-> dataset, mode |-> mode]
    /\ ws_before' = sqlite_table
    /\ ws_calls' = ws_calls + 1
    /\ UNCHANGED <<condVars, probeVars, selVars, psVars, restVars, sqlVars, minVars, nullVars, catVars, concVars, vsVars, tfVars, pipeVars>>

InitSqlite == CondIdle /\ ProbeIdle /\ SelIdle /\ PsIdle /\ RestIdle /\ SqlIdle /\ MinIdle /\ NullIdle /\ SqliteInit /\ CatIdle /\ ConcIdle /\ VsIdle /\ TfIdle /\ PipeIdle
NextSqlite == WriteSqlite
SpecSqlite == InitSqlite /\ [][NextSqlite]_vars

\* the table that holds exactly the rows of the dataset
TableOf(dataset) == [exists |-> TRUE, cols |-> dataset.cols, rows |-> dataset.rows]

\* C16: after write_sqlite in mode merge the destination table holds exactly the
\* rows of the dataset, whatever it held before (absent, empty or populated),
\* and the call returns; a merge that finds the table already holding the
\* dataset leaves it unchanged.
C16_MergeReplacesTable ==
    (ws_calls > 0 /\ ws_last.mode = "merge") =>
        /\ ws_result.kind = "return"
        /\ sqlite_table = TableOf(ws_last.dataset)
        /\ (ws_before = TableOf(ws_last.dataset) => sqlite_table = ws_before)

\* the second of two writes in merge mode, onto a populated table of another
\* shape
C16_Witness ==
    /\ ws_calls = 2
    /\ ws_last.mode = "merge"
    /\ ws_before.exists /\ ws_before.rows # <<>>
    /\ ws_before.cols # ws_last.dataset.cols
    /\ ws_last.dataset.rows # <<>>
    /\ sqlite_table = TableOf(ws_last.dataset)

\* C17: after write_sqlite in mode append that returns, a table that existed
\* holds its previous rows followed by the dataset's rows and a table that was
\* absent holds exactly the dataset's rows; the create-from-select fallback runs
\* only when the table was absent.
C17_AppendFallbackOnlyWhenAbsent ==
    (ws_calls > 0 /\ ws_last.mode = "append") =>
        /\ (ws_result.kind = "return" /\ ws_before.exists) =>
              sqlite_table = [ws_before EXCEPT !.rows = ws_before.rows \o ws_last.dataset.rows]
        /\ (ws_result.kind = "return" /\ ~ws_before.exists) =>
              sqlite_table = TableOf(ws_last.dataset)
        /\ ws_fallback => ~ws_before.exists

\* an append onto an existing table of another column count: the insert fails,
\* the fallback runs and fails in its turn
C17_FallbackOnExistingTable ==
    /\ ws_calls > 0 /\ ws_last.mode = "append"
    /\ ws_before.exists /\ ws_before.cols # ws_last.dataset.cols
    /\ ws_fallback
    /\ ws_result = Raised("CatalogException")

\* C18: write_sqlite with a mode other than merge and append raises ValueError
\* (the unsupported-mode error), returns no output location and leaves the
\* destination table as it was.
C18_UnknownModeRaises ==
    (ws_calls > 0 /\ ws_last.mode \notin {"merge", "append"}) =>
        /\ ws_result.kind = "raise"
        /\ ws_result.error = "ValueError"
        /\ ws_result.value = ""
        /\ sqlite_table = ws_before

C18_Witness ==
    /\ ws_calls > 0 /\ ws_last.mode = "upsert"
    /\ ws_before.exists /\ ws_before.rows # <<>>
    /\ ws_last.dataset.rows # <<>> /\ ws_last.dataset.rows # ws_before.rows
    /\ ws_result.kind = "raise"

\* C28: write_sqlite in mode append never removes or replaces rows of an
\* existing destination table; when the insert into an existing table fails,
\* the create-from-select fallback fails too, the error reaches the caller and
\* the table keeps exactly its previous rows.
C28_AppendKeepsExistingRows ==
    (ws_calls > 0 /\ ws_last.mode = "append" /\ ws_before.exists) =>
        /\ sqlite_table.exists
        /\ sqlite_table.cols = ws_before.cols
        /\ Len(sqlite_table.rows) >= Len(ws_before.rows)
        /\ SubSeq(sqlite_table.rows, 1, Len(ws_before.rows)) = ws_before.rows
        /\ ws_fallback =>
              /\ ws_result.kind = "raise"
              /\ ws_result.value = ""
              /\ sqlite_table = ws_before

\* a populated table of one column, a dataset of two columns with a row
C28_Witness ==
    /\ ws_calls > 0 /\ ws_last.mode = "append"
    /\ ws_before.exists /\ ws_before.cols = 1 /\ ws_before.rows # <<>>
    /\ ws_last.dataset.cols = 2 /\ ws_last.dataset.rows # <<>>
    /\ ws_fallback
    /\ ws_result.kind = "raise"
    /\ sqlite_table = ws_before

(***************************************************************************)
(* The run catalog (catalog.py).  runs is the runs table in insertion      *)
(* order and sqlite_sequence the AUTOINCREMENT counter; catalog_exists     *)
(* says whether the database file and its table exist.  started_at 0 is    *)
(* None, stored as NULL, which SQLite orders below every value.  The field *)
(* passed of a row is the output_paths argument of its record_run call; it *)
(* is not a column.  cat_last is the last call made and cat_outcome how it *)
(* ended; cat_query and cat_result are the arguments and the returned list *)
(* when it was get_pipeline_runs.                                          *)
(***************************************************************************)
MaxRuns == 3
CatalogPipelines == {"p", "q"}
StartTimes == {0, 1, 2}
Limits == {0, 1, 2}
PathLists == {<<<<"a">>, <<"b", "c">>>>}
\* the output_paths argument: None or a list
OutputPathsArgs == {[none |-> TRUE, list |-> <<>>]} \cup {[none |-> FALSE, list |-> l] : l \in PathLists}
\* status, output_paths and error_message of a call: a run that succeeded and
\* passes its outputs, a run that failed and passes its error's text
RunArgs ==
    {[status |-> "success", output_paths |-> a, error_message |-> ""] :
        a \in {a \in OutputPathsArgs : ~a.none}}
    \cup
    {[status |-> "failed", output_paths |-> a, error_message |-> "error"] :
        a \in {a \in OutputPathsArgs : a.none}}

RECURSIVE JoinItems(_)
JoinItems(items) ==
    IF items = <<>> THEN <<>>
    ELSE IF Len(items) = 1 THEN <<"\"">> \o items[1] \o <<"\"">>
    ELSE <<"\"">> \o items[1] \o <<"\"", ",", " ">> \o JoinItems(Tail(items))

\* json.dumps of a list of strings
json_dumps(list) == <<"[">> \o JoinItems(list) \o <<"]">>

\* json.loads of the text of a list of strings
json_loads(text) ==
    LET inner == SubSeq(text, 2, Len(text) - 1)
        parts == Split(inner, <<",", " ">>)
    IN  IF inner = <<>> THEN <<>>
        ELSE [i \in 1..Len(parts) |-> StripChars(parts[i], {"\""})]

\* lines 16-29 with the table created anew
CreateTableAnew(table) == <<>>

\* lines 16-29: CREATE TABLE IF NOT EXISTS
CreateTableIfNotExists(table) == table

\* lines 7-32
InitCatalogDb ==
    /\ catalog_exists' = TRUE
    /\ runs' = CreateTableIfNotExists(runs)
    /\ cat_last' = "init"
    /\ cat_outcome' = [kind |-> "return", error |-> "", value |-> 0]
    /\ cat_query' = [pipeline |-> "", limit |-> 0]
    /\ cat_result' = <<>>
    /\ UNCHANGED sqlite_sequence
    /\ UNCHANGED <<condVars, probeVars, selVars, psVars, restVars, sqlVars, minVars, nullVars, sqliteVars, concVars, vsVars, tfVars, pipeVars>>

\* lines 51-63: the row the INSERT adds
RunRow(run_id, pipeline, status, output_paths, started_at, error_message) ==
    [run_id |-> run_id, pipeline |-> pipeline, status |-> status,
     started_at |-> started_at,
     output_paths |-> json_dumps(IF output_paths.none THEN <<>> ELSE output_paths.list),
     error_message |-> error_message,
     passed |-> output_paths]

\* line 66: conn.lastrowid, conn being the sqlite3.Connection, which has no
\* attribute lastrowid; lines 67-70 are not reached
ConnectionLastRowId(run_id) == [kind |-> "raise", error |-> "AttributeError", value |-> 0]

\* lines 34-70.  Line 66 reads lastrowid from the connection, which has no such
\* attribute: the call raises after the commit of line 65.
RecordRun ==
    /\ Len(runs) < MaxRuns
    /\ \E pipeline \in CatalogPipelines, started_at \in StartTimes, args \in RunArgs :
          LET run_id == sqlite_sequence + 1
          IN  /\ runs' = Append(CreateTableIfNotExists(runs),
                                RunRow(run_id, pipeline, args.status, args.output_paths,
                                       started_at, args.error_message))
              /\ sqlite_sequence' = run_id
              /\ cat_outcome' = ConnectionLastRowId(run_id)
    /\ catalog_exists' = TRUE
    /\ cat_last' = "record"
    /\ cat_query' = [pipeline |-> "", limit |-> 0]
    /\ cat_result' = <<>>
    /\ UNCHANGED <<condVars, probeVars, selVars, psVars, restVars, sqlVars, minVars, nullVars, sqliteVars, concVars, vsVars, tfVars, pipeVars>>

\* line 83: the positions of the rows of the pipeline
WherePipeline(table, pipeline) ==
    {i \in 1..Len(table) : table[i].pipeline = pipeline}

\* line 84 with ASC for DESC
OrderedAsc(table, order) ==
    \A a, b \in DOMAIN order :
        a < b => table[order[a]].started_at <= table[order[b]].started_at

\* line 84: ORDER BY started_at DESC
OrderedDesc(table, order) ==
    \A a, b \in DOMAIN order :
        a < b => table[order[a]].started_at >= table[order[b]].started_at

\* lines 82-84: the orders in which the query may deliver the selected rows;
\* rows of equal started_at come in any order
Orderings(table, selected) ==
    {order \in [1..Cardinality(selected) -> selected] :
        /\ \A a, b \in DOMAIN order : a # b => order[a] # order[b]
        /\ OrderedDesc(table, order)}

Min(a, b) == IF a <= b THEN a ELSE b

\* lines 88-92: the row as a dict, output_paths parsed back to a list
RunDict(row) ==
    [run_id |-> row.run_id, pipeline |-> row.pipeline, status |-> row.status,
     started_at |-> row.started_at, error_message |-> row.error_message,
     output_paths |-> json_loads(IF row.output_paths = <<>> THEN <<"[", "]">>
                                 ELSE row.output_paths)]

\* lines 72-95, limit >= 0
GetPipelineRuns ==
    /\ \E pipeline \in CatalogPipelines, limit \in Limits :
          /\ cat_query' = [pipeline |-> pipeline, limit |-> limit]
          /\ IF ~catalog_exists
             THEN cat_result' = <<>>
             ELSE \E order \in Orderings(runs, WherePipeline(runs, pipeline)) :
                     cat_result' = [k \in 1..Min(Len(order), limit) |-> RunDict(runs[order[k]])]
    /\ cat_last' = "get"
    /\ cat_outcome' = [kind |-> "return", error |-> "", value |-> 0]
    /\ UNCHANGED <<catalog_exists, runs, sqlite_sequence>>
    /\ UNCHANGED <<condVars, probeVars, selVars, psVars, restVars, sqlVars, minVars, nullVars, sqliteVars, concVars, vsVars, tfVars, pipeVars>>

InitCatalog == CondIdle /\ ProbeIdle /\ SelIdle /\ PsIdle /\ RestIdle /\ SqlIdle /\ MinIdle /\ NullIdle /\ SqliteIdle /\ CatIdle /\ ConcIdle /\ VsIdle /\ TfIdle /\ PipeIdle
NextCatalog == InitCatalogDb \/ RecordRun \/ GetPipelineRuns
SpecCatalog == InitCatalog /\ [][NextCatalog]_vars

\* the rows recorded for the pipeline of the last query
RecordedFor(pipeline) == {i \in 1..Len(runs) : runs[i].pipeline = pipeline}
ReturnedIds == {cat_result[k].run_id : k \in 1..Len(cat_result)}
RowOfId(id) == runs[CHOOSE i \in 1..Len(runs) : runs[i].run_id = id]

\* C19: after N record_run calls for pipeline p, interleaved with calls for
\* other pipelines, get_pipeline_runs(p, limit) returns exactly min(N, limit)
\* records, each a distinct recorded run of p, ordered by started_at from the
\* latest to the earliest, no run left out being later than a run returned, and
\* each with the output_paths list that was passed to record_run (a run
\* recorded without started_at counts as the earliest).
C19_GetRunsMostRecentFirst ==
    cat_last = "get" =>
        LET mine == RecordedFor(cat_query.pipeline)
            N == Cardinality(mine)
        IN  /\ Len(cat_result) = Min(N, cat_query.limit)
            /\ Cardinality(ReturnedIds) = Len(cat_result)
            /\ ReturnedIds \subseteq {runs[i].run_id : i \in mine}
            /\ \A k \in 1..Len(cat_result) :
                  /\ cat_result[k].pipeline = cat_query.pipeline
                  /\ cat_result[k].started_at = RowOfId(cat_result[k].run_id).started_at
                  /\ ~RowOfId(cat_result[k].run_id).passed.none =>
                        cat_result[k].output_paths = RowOfId(cat_result[k].run_id).passed.list
            /\ \A a, b \in 1..Len(cat_result) :
                  a < b => cat_result[a].started_at >= cat_result[b].started_at
            /\ \A i \in mine, k \in 1..Len(cat_result) :
                  runs[i].run_id \notin ReturnedIds =>
                      runs[i].started_at <= cat_result[k].started_at

\* three runs, two of p around one of q, recorded with the earlier started_at
\* last; the query for p with limit 1 returns the later one with its paths
C19_Witness ==
    /\ cat_last = "get"
    /\ cat_query = [pipeline |-> "p", limit |-> 1]
    /\ Len(runs) = 3
    /\ runs[1].pipeline = "p" /\ runs[2].pipeline = "q" /\ runs[3].pipeline = "p"
    /\ runs[1].started_at = 2 /\ runs[3].started_at = 1
    /\ Len(cat_result) = 1
    /\ cat_result[1].run_id = 1
    /\ cat_result[1].output_paths = <<<<"a">>, <<"b", "c">>>>

\* C20: the catalog is append-only under every sequence of init_catalog_db,
\* record_run and get_pipeline_runs calls: a call leaves every row already
\* there as it was, record_run adds exactly one row after them and the other
\* calls add none, and run identifiers strictly increase in insertion order.
C20_CatalogAppendOnly ==
    [][/\ Len(runs') >= Len(runs)
       /\ SubSeq(runs', 1, Len(runs)) = runs
       /\ Len(runs') = Len(runs) + (IF cat_last' = "record" THEN 1 ELSE 0)
       /\ \A i, j \in 1..Len(runs') : i < j => runs'[i].run_id < runs'[j].run_id]_vars

\* a catalog of two rows on which init_catalog_db has just been called again
C20_Witness ==
    /\ Len(runs) >= 2
    /\ cat_last = "init"
    /\ runs[1].run_id < runs[2].run_id

\* C26: every record_run call on a writable catalog completes without raising
\* and returns the run identifier of the row it has just inserted, the
\* identifier get_pipeline_runs reports for that row.
C26_RecordRunReturnsRunId ==
    cat_last = "record" =>
        /\ cat_outcome.kind = "return"
        /\ cat_outcome.value = runs[Len(runs)].run_id

\* the first call on a new catalog: its row is in the table with run_id 1 and
\* the call has raised
C26_RowInsertedCallRaised ==
    /\ cat_last = "record"
    /\ Len(runs) = 1 /\ runs[1].run_id = 1
    /\ cat_outcome = [kind |-> "raise", error |-> "AttributeError", value |-> 0]

(***************************************************************************)
(* record_run called by several invocations on one catalog at the same     *)
(* time.  Each invocation has its own connection; cc_pc is its position in *)
(* record_run.  The INSERT of line 55 opens a write transaction, for which *)
(* SQLite gives the database's write lock to one connection at a time      *)
(* (cc_lock, 0 when free); the row is cc_pending until the commit of line  *)
(* 65 makes it part of runs and frees the lock.  A connection that finds   *)
(* the lock taken waits for it; sqlite3.connect is called without a        *)
(* timeout, so after the default 5 seconds of waiting the INSERT raises    *)
(* OperationalError (database is locked).                                  *)
(***************************************************************************)
\* line 43: init_catalog_db
CcInitCatalog(p) ==
    /\ cc_pc[p] = "init"
    /\ catalog_exists' = TRUE
    /\ runs' = CreateTableIfNotExists(runs)
    /\ cc_pc' = [cc_pc EXCEPT ![p] = "insert"]
    /\ UNCHANGED <<sqlite_sequence, cat_last, cat_query, cat_result, cat_outcome>>
    /\ UNCHANGED <<cc_lock, cc_pending>>
    /\ UNCHANGED <<condVars, probeVars, selVars, psVars, restVars, sqlVars, minVars, nullVars, sqliteVars, vsVars, tfVars, pipeVars>>

\* lines 53-63: the INSERT gets the write lock
CcInsert(p) ==
    /\ cc_pc[p] = "insert"
    /\ cc_lock = 0
    /\ \E pipeline \in CatalogPipelines :
          cc_pending' = [cc_pending EXCEPT ![p] =
                            RunRow(sqlite_sequence + 1, pipeline, "success",
                                   [none |-> TRUE, list |-> <<>>], 0, "")]
    /\ cc_lock' = p
    /\ cc_pc' = [cc_pc EXCEPT ![p] = "commit"]
    /\ UNCHANGED catVars
    /\ UNCHANGED <<condVars, probeVars, selVars, psVars, restVars, sqlVars, minVars, nullVars, sqliteVars, vsVars, tfVars, pipeVars>>

\* lines 53-63: the lock is another connection's and the wait for it times out
CcInsertTimesOut(p) ==
    /\ cc_pc[p] = "insert"
    /\ cc_lock # 0
    /\ cc_pc' = [cc_pc EXCEPT ![p] = "OperationalError"]
    /\ UNCHANGED <<cc_lock, cc_pending>>
    /\ UNCHANGED catVars
    /\ UNCHANGED <<condVars, probeVars, selVars, psVars, restVars, sqlVars, minVars, nullVars, sqliteVars, vsVars, tfVars, pipeVars>>

\* line 65
CcCommit(p) ==
    /\ cc_pc[p] = "commit"
    /\ runs' = Append(runs, cc_pending[p])
    /\ sqlite_sequence' = cc_pending[p].run_id
    /\ cc_lock' = 0
    /\ cc_pc' = [cc_pc EXCEPT ![p] = "lastrowid"]
    /\ UNCHANGED <<catalog_exists, cat_last, cat_query, cat_result, cat_outcome>>
    /\ UNCHANGED cc_pending
    /\ UNCHANGED <<condVars, probeVars, selVars, psVars, restVars, sqlVars, minVars, nullVars, sqliteVars, vsVars, tfVars, pipeVars>>

\* line 66: the connection has no attribute lastrowid
CcLastRowId(p) ==
    /\ cc_pc[p] = "lastrowid"
    /\ cc_pc' = [cc_pc EXCEPT ![p] = "AttributeError"]
    /\ UNCHANGED <<cc_lock, cc_pending>>
    /\ UNCHANGED catVars
    /\ UNCHANGED <<condVars, probeVars, selVars, psVars, restVars, sqlVars, minVars, nullVars, sqliteVars, vsVars, tfVars, pipeVars>>

ConcInit ==
    /\ cc_pc = [p \in Procs |-> "init"]
    /\ cc_lock = 0
    /\ cc_pending = [p \in Procs |-> NoRow]

InitConcurrent == CondIdle /\ ProbeIdle /\ SelIdle /\ PsIdle /\ RestIdle /\ SqlIdle /\ MinIdle /\ NullIdle /\ SqliteIdle /\ CatIdle /\ ConcInit /\ VsIdle /\ TfIdle /\ PipeIdle
NextConcurrent ==
    \E p \in Procs :
        CcInitCatalog(p) \/ CcInsert(p) \/ CcInsertTimesOut(p) \/ CcCommit(p) \/ CcLastRowId(p)
SpecConcurrent == InitConcurrent /\ [][NextConcurrent]_vars

CcEnded(p) == cc_pc[p] \in {"AttributeError", "OperationalError"}

\* C21: when several invocations call record_run on the same catalog at the
\* same time, each also initialising it, every call that has ended has its
\* record in the runs table exactly once, and the records of different calls
\* have different run identifiers.
C21_ConcurrentAppendsAllRecorded ==
    /\ \A p \in Procs :
          CcEnded(p) =>
              /\ cc_pending[p].run_id # 0
              /\ Cardinality({i \in 1..Len(runs) : runs[i] = cc_pending[p]}) = 1
    /\ \A i, j \in 1..Len(runs) : i # j => runs[i].run_id # runs[j].run_id

\* every call has ended and the table has fewer rows than there were calls
C21_AppendLost ==
    /\ \A p \in Procs : CcEnded(p)
    /\ \E p \in Procs : cc_pc[p] = "OperationalError"
    /\ Len(runs) < MaxProcs

(***************************************************************************)
(* RequestParser.validate_and_save_spec(spec_dict, output_dir).  spec_dict *)
(* is what parse_request returns, the json.loads of a text: mappings,      *)
(* lists and strings.  pipeline_name is a sequence of characters here,     *)
(* since the file's path is made of it.  vs_dirs holds the directories     *)
(* that exist (vs_before: before the call) and vs_files the files, each    *)
(* with its path and its content.                                          *)
(***************************************************************************)
OutputDir == <<"s">>
S_slash == <<"/">>
S_dot_json == <<".", "j", "s", "o", "n">>
SpecFileNames == {<<>>, <<"o">>, <<"a", "/", "b">>}

\* the directories that exist before the call: none, output_dir, output_dir
\* and its subdirectory a
DirsBefore == {{}, {OutputDir}, {OutputDir, OutputDir \o S_slash \o <<"a">>}}

VsInputs ==
    {[present |-> RequiredFields \ out,
      pipeline_name |-> IF "pipeline_name" \in out THEN <<>> ELSE n,
      sources |-> IF "sources" \in out THEN <<>> ELSE v] :
        out \in {{}} \cup {{f} : f \in RequiredFields},
        n \in SpecFileNames,
        v \in {<<>>} \cup {<<d>> : d \in SchemaSources}}

\* the directory a path is in: the path up to its last slash
RECURSIVE ParentOf(_)
ParentOf(path) ==
    IF path = <<>> THEN <<>>
    ELSE IF path[Len(path)] = "/" THEN SubSeq(path, 1, Len(path) - 1)
    ELSE ParentOf(SubSeq(path, 1, Len(path) - 1))

\* json.dump of a string: quoted, with quotes and backslashes escaped
json_string(text) ==
    <<"\"">> \o Replace(Replace(text, <<"\\">>, <<"\\", "\\">>), <<"\"">>, <<"\\", "\"">>)
            \o <<"\"">>

\* json.load of a string
json_unstring(text) ==
    Replace(Replace(SubSeq(text, 2, Len(text) - 1), <<"\\", "\"">>, <<"\"">>),
            <<"\\", "\\">>, <<"\\">>)

\* line 107: json.dump(spec_dict): the keys the mapping has, each with its value
json_dump_spec(d) ==
    [keys |-> d.present,
     pipeline_name |-> json_string(d.pipeline_name),
     sources |-> d.sources]

\* json.load of the file
json_load_spec(content) ==
    [present |-> content.keys,
     pipeline_name |-> json_unstring(content.pipeline_name),
     sources |-> content.sources]

VsInit ==
    /\ vs_pc = "call"
    /\ vs_input \in VsInputs
    /\ vs_dirs \in DirsBefore
    /\ vs_before = vs_dirs
    /\ vs_files = {}
    /\ vs_result = [kind |-> "none", error |-> "", path |-> <<>>]

\* lines 96-109
ValidateAndSaveSpec ==
    /\ vs_pc = "call"
    /\ LET spec == PipelineSpec(vs_input)
           output_path == OutputDir \o S_slash \o spec.pipeline_name \o S_dot_json
       IN  IF ~spec.ok
           THEN /\ vs_result' = [kind |-> "raise", error |-> "ValidationError", path |-> <<>>]
                /\ UNCHANGED <<vs_dirs, vs_files>>
           ELSE /\ vs_dirs' = vs_dirs \cup {OutputDir}
                /\ IF ParentOf(output_path) \in vs_dirs \cup {OutputDir}
                   THEN /\ vs_files' = vs_files \cup
                               {[path |-> output_path, content |-> json_dump_spec(vs_input)]}
                        /\ vs_result' = [kind |-> "return", error |-> "", path |-> output_path]
                   ELSE /\ vs_files' = vs_files
                        /\ vs_result' = [kind |-> "raise", error |-> "FileNotFoundError",
                                         path |-> <<>>]
    /\ vs_pc' = "done"
    /\ UNCHANGED <<vs_input, vs_before>>
    /\ UNCHANGED <<condVars, probeVars, selVars, psVars, restVars, sqlVars, minVars, nullVars, sqliteVars, catVars, concVars, tfVars, pipeVars>>

InitSaveSpec == CondIdle /\ ProbeIdle /\ SelIdle /\ PsIdle /\ RestIdle /\ SqlIdle /\ MinIdle /\ NullIdle /\ SqliteIdle /\ CatIdle /\ ConcIdle /\ VsInit /\ TfIdle /\ PipeIdle
NextSaveSpec == ValidateAndSaveSpec
SpecSaveSpec == InitSaveSpec /\ [][NextSaveSpec]_vars

\* C25: validate_and_save_spec given a dict that fails PipelineSpec validation
\* raises without creating the output directory or writing a file; given a
\* valid dict it writes a file whose parsed content equals the dict.
C25_RejectsBeforeIoSavesValid ==
    vs_pc = "done" =>
        /\ ~PipelineSpec(vs_input).ok =>
              /\ vs_result.kind = "raise"
              /\ vs_dirs = vs_before
              /\ vs_files = {}
        /\ PipelineSpec(vs_input).ok =>
              /\ vs_result.kind = "return"
              /\ \E f \in vs_files :
                    f.path = vs_result.path /\ json_load_spec(f.content) = vs_input

\* a valid dict whose pipeline_name is a/b, no directory there before: the
\* call has created output_dir and raised, and no file is written
C25_ValidSpecNotSaved ==
    /\ vs_pc = "done"
    /\ PipelineSpec(vs_input).ok
    /\ vs_input.pipeline_name = <<"a", "/", "b">>
    /\ vs_before = {}
    /\ vs_dirs = {OutputDir}
    /\ vs_files = {}
    /\ vs_result.error = "FileNotFoundError"

(***************************************************************************)
(* The temporary files of pipeline invocations that run at the same time.  *)
(* Each invocation extracts from a file source (read_file_to_duckdb),      *)
(* transforms (run_sql) and hands the transformed file to a sink.  The     *)
(* files are in the one directory /tmp/etl_pipeline, named by hash() of    *)
(* the pattern or of the SQL file's path.  hash() of a string depends on   *)
(* the process's hash seed: chosen at random when the interpreter starts,  *)
(* equal in processes forked from one parent or started with the same      *)
(* PYTHONHASHSEED.  tf_scratch holds the files, each with the invocation   *)
(* that wrote it last; tf_reads[i] the writers of the files invocation i   *)
(* has read; tf_overwritten the pairs <<i, j>> where i has overwritten a   *)
(* file j had written and was still to read.                               *)
(***************************************************************************)
HashSeeds == {1, 2}
Patterns == {"orders_*.csv", "items_*.csv"}
SqlPaths == {"sql/orders.sql", "sql/items.sql"}

\* hash(text) in a process of the given seed
Hash(seed, text) == <<seed, text>>

\* io_sources.py line 24 and etl_ops.py line 111
ExtractedFile(i) == <<"extracted", Hash(tf_seed[i], tf_pattern[i])>>
TransformedFile(i) == <<"transformed", Hash(tf_seed[i], tf_sql_path[i])>>

\* the invocation that wrote the file last
WriterOf(file) == (CHOOSE f \in tf_scratch : f.file = file).writer
Exists(file) == \E f \in tf_scratch : f.file = file

\* COPY ... TO file: the file is created or replaced
WriteFile(file, i) ==
    {f \in tf_scratch : f.file # file} \cup {[file |-> file, writer |-> i]}

\* the invocations other than i that wrote the file and have still to read it
StillNeededBy(file, i, readers) ==
    IF Exists(file) /\ WriterOf(file) # i /\ WriterOf(file) \in readers
    THEN {<<i, WriterOf(file)>>} ELSE {}

TfInit ==
    /\ tf_pc = [i \in Invocations |-> "extract"]
    /\ tf_seed \in [Invocations -> HashSeeds]
    /\ tf_pattern \in [Invocations -> Patterns]
    /\ tf_sql_path \in [Invocations -> SqlPaths]
    /\ tf_scratch = {}
    /\ tf_reads = [i \in Invocations |-> {}]
    /\ tf_overwritten = {}

\* read_file_to_duckdb, io_sources.py lines 21-48
TfExtract(i) ==
    /\ tf_pc[i] = "extract"
    /\ tf_overwritten' = tf_overwritten \cup
          StillNeededBy(ExtractedFile(i), i, {j \in Invocations : tf_pc[j] = "transform"})
    /\ tf_scratch' = WriteFile(ExtractedFile(i), i)
    /\ tf_pc' = [tf_pc EXCEPT ![i] = "transform"]
    /\ UNCHANGED <<tf_seed, tf_pattern, tf_sql_path, tf_reads>>
    /\ UNCHANGED <<condVars, probeVars, selVars, psVars, restVars, sqlVars, minVars, nullVars, sqliteVars, catVars, concVars, vsVars, pipeVars>>

\* run_sql, etl_ops.py lines 108-125: reads the extracted file, writes the
\* transformed one
TfTransform(i) ==
    /\ tf_pc[i] = "transform"
    /\ tf_reads' = [tf_reads EXCEPT ![i] = @ \cup {WriterOf(ExtractedFile(i))}]
    /\ tf_overwritten' = tf_overwritten \cup
          StillNeededBy(TransformedFile(i), i, {j \in Invocations : tf_pc[j] = "sink"})
    /\ tf_scratch' = WriteFile(TransformedFile(i), i)
    /\ tf_pc' = [tf_pc EXCEPT ![i] = "sink"]
    /\ UNCHANGED <<tf_seed, tf_pattern, tf_sql_path>>
    /\ UNCHANGED <<condVars, probeVars, selVars, psVars, restVars, sqlVars, minVars, nullVars, sqliteVars, catVars, concVars, vsVars, pipeVars>>

\* write_sqlite or write_parquet reads the transformed file
TfSink(i) ==
    /\ tf_pc[i] = "sink"
    /\ tf_reads' = [tf_reads EXCEPT ![i] = @ \cup {WriterOf(TransformedFile(i))}]
    /\ tf_pc' = [tf_pc EXCEPT ![i] = "done"]
    /\ UNCHANGED <<tf_seed, tf_pattern, tf_sql_path, tf_scratch, tf_overwritten>>
    /\ UNCHANGED <<condVars, probeVars, selVars, psVars, restVars, sqlVars, minVars, nullVars, sqliteVars, catVars, concVars, vsVars, pipeVars>>

InitScratch == CondIdle /\ ProbeIdle /\ SelIdle /\ PsIdle /\ RestIdle /\ SqlIdle /\ MinIdle /\ NullIdle /\ SqliteIdle /\ CatIdle /\ ConcIdle /\ VsIdle /\ TfInit /\ PipeIdle
NextScratch == \E i \in Invocations : TfExtract(i) \/ TfTransform(i) \/ TfSink(i)
SpecScratch == InitScratch /\ [][NextScratch]_vars

\* C24: the temporary extraction and transform files of one invocation are
\* never overwritten or read by another invocation running at the same time,
\* also when both use the same source pattern or query file.
C24_ScratchFilesNotShared ==
    /\ tf_overwritten = {}
    /\ \A i \in Invocations : tf_reads[i] \subseteq {i}

\* two invocations with the same hash seed and the same query file: the second
\* has replaced the first's transformed file, which the first then read
C24_TransformedFileShared ==
    /\ tf_seed[1] = tf_seed[2]
    /\ tf_sql_path[1] = tf_sql_path[2]
    /\ tf_pattern[1] # tf_pattern[2]
    /\ <<2, 1>> \in tf_overwritten
    /\ 2 \in tf_reads[1]


(***************************************************************************)
(* One execution of a pipeline: select the source, extract it, transform   *)
(* it, run the quality checks, write the configured sinks, record the run  *)
(* in the catalog.  The functions the stages call are those of src/app;    *)
(* the sequence that calls them is the generated DAG, whose template       *)
(* (dag_template.py.j2) is not among the sources, so the order of the      *)
(* stages and what follows a failure are taken from spec.md sections 3, 5  *)
(* and 7.                                                                  *)
(***************************************************************************)
\* checks: min_rows alone, or min_rows with null_ratio over columns
CheckConfigs ==
    {[min_rows |-> 1, columns |-> <<>>, max |-> <<0, 1>>],
     [min_rows |-> 2, columns |-> <<"id">>, max |-> <<1, 2>>]}

SqliteSink(mode) == [kind |-> "sqlite", mode |-> mode]
ParquetSink == [kind |-> "parquet", mode |-> ""]

\* outputs: sqlite, parquet, both, and a sqlite output of a mode write_sqlite
\* does not know
SinkConfigs ==
    {<<SqliteSink("merge")>>, <<ParquetSink>>, <<SqliteSink("merge"), ParquetSink>>,
     <<SqliteSink("upsert")>>}

PipeConfigs ==
    {[min_rows |-> c.min_rows, columns |-> c.columns, max |-> c.max, sinks |-> s] :
        c \in CheckConfigs, s \in SinkConfigs}

\* the datasets a transform can produce: no row, one row, two rows of which
\* none, one or both have a NULL id
RowWithId(id) == [c \in Columns |-> IF c = "id" THEN id ELSE "v"]
PipeDatasets ==
    {<<>>, <<RowWithId("v")>>, <<RowWithId("v"), RowWithId("v")>>,
     <<RowWithId("v"), RowWithId(NULL)>>, <<RowWithId(NULL), RowWithId(NULL)>>}

\* io_sources.pg_fetch: raises NotImplementedError on every call
pg_fetch_implemented == {"ok"}
pg_fetch == {"NotImplementedError"}

\* etl_ops.extract: the outcomes of extracting a source whose probe meets world
extract(source, world) ==
    IF source.type = "file"
    THEN IF world.glob THEN {"ok"} ELSE {"FileNotFoundError"}
    ELSE IF source.type = "rest" THEN {"ok", "ConnectionError"}
    ELSE IF source.type = "postgres" THEN pg_fetch
    ELSE {"ValueError"}

\* etl_ops.run_sql: a transformed dataset, or an error of the query
TransformError == "BinderException"

\* quality.assert_null_ratio as one evaluation: the columns in order, the first
\* one whose ratio exceeds the maximum raises
RECURSIVE assert_null_ratio(_, _, _)
assert_null_ratio(dataset, cols, maximum) ==
    IF cols = <<>> THEN [kind |-> "return", error |-> "", check |-> ""]
    ELSE IF CountStar(dataset) = 0
    THEN \* no row: the ratio is no number and line 48 cannot compare it
         [kind |-> "raise", error |-> "TypeError", check |-> "null ratio is not a number"]
    ELSE IF Exceeds(CountStar(dataset), CountColumn(dataset, Head(cols)), maximum)
    THEN [kind |-> "raise", error |-> "ValueError", check |-> "Null ratio check failed"]
    ELSE assert_null_ratio(dataset, Tail(cols), maximum)

\* the checks of the spec in order: min_rows, then null_ratio when configured
RunChecks(dataset, config) ==
    IF assert_min_rows(dataset, config.min_rows).kind = "raise"
    THEN assert_min_rows(dataset, config.min_rows)
    ELSE assert_null_ratio(dataset, config.columns, config.max)

\* etl_ops.write_parquet: the directory written, or an error of the copy
write_parquet == {"ok", "IOException"}

\* where an execution goes after a stage failed, and after the transform
StageAfterFailure == "record"
StageWritesAfterTransform == "write"
StageAfterTransform == "check"

PipelineName == "p"
StartedAt == 1
SinkPath(sink) == IF sink.kind = "sqlite" THEN <<"s">> ELSE <<"d">>

\* an execution starts: the spec it runs (two sources named A and B, the
\* priority list, the checks and the outputs), the environment, and what the
\* probes of the sources will meet
ExStart ==
    /\ ex_stage = "idle"
    /\ sel_pc' = "filter"
    /\ \E a \in {c \in SourceCases : c[1].name = "A"},
          b \in {c \in SourceCases : c[1].name = "B"} :
          /\ sel_spec' \in [sources : {<<a[1], b[1]>>},
                            primary : SeqsUpTo(SourceNames, MaxPrimary)]
          /\ sel_world' = <<a[2], b[2]>>
    /\ sel_env' \in Envs
    /\ enabled_sources' = <<>> /\ sel_i' = 0 /\ sel_j' = 0
    /\ sel_probes' = <<>> /\ sel_result' = [kind |-> "none"]
    /\ ex_stage' = "select"
    /\ ex_config' \in PipeConfigs
    /\ ex_status' = "running"
    /\ UNCHANGED <<ex_source, ex_dataset, ex_written, ex_error, ex_failed>>
    /\ UNCHANGED <<condVars, probeVars, psVars, restVars, sqlVars, minVars, nullVars, sqliteVars, catVars, concVars, vsVars, tfVars>>

\* a stage raised: the execution is failed with the error's text
Fails(stage, error) ==
    /\ ex_status' = "failed"
    /\ ex_error' = error
    /\ ex_failed' = stage
    /\ ex_stage' = StageAfterFailure

\* select_source has returned the name of a source, or raised
ExSelected ==
    /\ ex_stage = "select" /\ sel_pc = "done"
    /\ IF sel_result.kind = "return"
       THEN /\ ex_source' = CHOOSE k \in 1..Len(sel_spec.sources) :
                                sel_spec.sources[k].name = sel_result.name
            /\ ex_stage' = "extract"
            /\ UNCHANGED <<ex_status, ex_error, ex_failed>>
       ELSE /\ Fails("select", sel_result.error)
            /\ UNCHANGED ex_source
    /\ UNCHANGED <<ex_config, ex_dataset, ex_written>>
    /\ UNCHANGED <<condVars, probeVars, selVars, psVars, restVars, sqlVars, minVars, nullVars, sqliteVars, catVars, concVars, vsVars, tfVars>>

ExExtract ==
    /\ ex_stage = "extract"
    /\ \E r \in extract(sel_spec.sources[ex_source], sel_world[ex_source]) :
          IF r = "ok"
          THEN /\ ex_stage' = "transform"
               /\ UNCHANGED <<ex_status, ex_error, ex_failed>>
          ELSE Fails("extract", r)
    /\ UNCHANGED <<ex_config, ex_source, ex_dataset, ex_written>>
    /\ UNCHANGED <<condVars, probeVars, selVars, psVars, restVars, sqlVars, minVars, nullVars, sqliteVars, catVars, concVars, vsVars, tfVars>>

ExTransform ==
    /\ ex_stage = "transform"
    /\ \/ /\ ex_dataset' \in PipeDatasets
          /\ ex_stage' = StageAfterTransform
          /\ UNCHANGED <<ex_status, ex_error, ex_failed>>
       \/ /\ Fails("transform", TransformError)
          /\ UNCHANGED ex_dataset
    /\ UNCHANGED <<ex_config, ex_source, ex_written>>
    /\ UNCHANGED <<condVars, probeVars, selVars, psVars, restVars, sqlVars, minVars, nullVars, sqliteVars, catVars, concVars, vsVars, tfVars>>

\* the quality gate: the checks read the dataset and raise or return
ExCheck ==
    /\ ex_stage = "check"
    /\ LET r == RunChecks(ex_dataset, ex_config)
       IN  IF r.kind = "raise"
           THEN Fails("check", r.check)
           ELSE /\ ex_stage' = "write"
                /\ UNCHANGED <<ex_status, ex_error, ex_failed>>
    /\ UNCHANGED <<ex_config, ex_source, ex_dataset, ex_written>>
    /\ UNCHANGED <<condVars, probeVars, selVars, psVars, restVars, sqlVars, minVars, nullVars, sqliteVars, catVars, concVars, vsVars, tfVars>>

\* the next configured sink is written, sqlite before parquet
ExWriteSqlite ==
    /\ ex_stage = "write"
    /\ Len(ex_written) < Len(ex_config.sinks)
    /\ LET sink == ex_config.sinks[Len(ex_written) + 1]
           out == write_sqlite(sqlite_table,
                               [cols |-> Cardinality(Columns), rows |-> ex_dataset],
                               sink.mode)
       IN  /\ sink.kind = "sqlite"
           /\ sqlite_table' = out.table
           /\ IF out.result.kind = "return"
              THEN /\ ex_written' = Append(ex_written, sink)
                   /\ UNCHANGED <<ex_stage, ex_status, ex_error, ex_failed>>
              ELSE /\ Fails("write", out.result.error)
                   /\ UNCHANGED ex_written
    /\ UNCHANGED <<ex_config, ex_source, ex_dataset>>
    /\ UNCHANGED <<ws_before, ws_last, ws_result, ws_fallback, ws_calls>>
    /\ UNCHANGED <<condVars, probeVars, selVars, psVars, restVars, sqlVars, minVars, nullVars, catVars, concVars, vsVars, tfVars>>

ExWriteParquet ==
    /\ ex_stage = "write"
    /\ Len(ex_written) < Len(ex_config.sinks)
    /\ LET sink == ex_config.sinks[Len(ex_written) + 1]
       IN  /\ sink.kind = "parquet"
           /\ \E r \in write_parquet :
                 IF r = "ok"
                 THEN /\ ex_written' = Append(ex_written, sink)
                      /\ UNCHANGED <<ex_stage, ex_status, ex_error, ex_failed>>
                 ELSE /\ Fails("write", r)
                      /\ UNCHANGED ex_written
    /\ UNCHANGED <<ex_config, ex_source, ex_dataset>>
    /\ UNCHANGED <<condVars, probeVars, selVars, psVars, restVars, sqlVars, minVars, nullVars, sqliteVars, catVars, concVars, vsVars, tfVars>>

\* the last configured sink is written: the execution succeeded
ExSucceed ==
    /\ ex_stage = "write"
    /\ Len(ex_written) = Len(ex_config.sinks)
    /\ ex_status' = "success"
    /\ ex_stage' = "record"
    /\ UNCHANGED <<ex_config, ex_source, ex_dataset, ex_written, ex_error, ex_failed>>
    /\ UNCHANGED <<condVars, probeVars, selVars, psVars, restVars, sqlVars, minVars, nullVars, sqliteVars, catVars, concVars, vsVars, tfVars>>

\* another invocation has executed its INSERT into the catalog and holds the
\* write lock of the database until its commit; what it does before the
\* execution records is of no effect on the execution
ExOtherInvocationInserts ==
    /\ ex_stage = "record"
    /\ cc_lock = 0
    /\ cc_lock' \in Procs
    /\ UNCHANGED <<cc_pc, cc_pending>>
    /\ UNCHANGED <<condVars, probeVars, selVars, psVars, restVars, sqlVars, minVars, nullVars, sqliteVars, catVars, vsVars, tfVars, pipeVars>>

\* catalog.record_run with the outcome of the execution, its INSERT finding
\* the database locked until the busy timeout: OperationalError at line 55
ExRecordTimesOut ==
    /\ ex_stage = "record"
    /\ cc_lock # 0
    /\ cat_outcome' = [kind |-> "raise", error |-> "OperationalError", value |-> 0]
    /\ catalog_exists' = TRUE
    /\ cat_last' = "record"
    /\ ex_stage' = "ended"
    /\ UNCHANGED <<runs, sqlite_sequence, cat_query, cat_result>>
    /\ UNCHANGED <<ex_config, ex_source, ex_dataset, ex_written, ex_status, ex_error, ex_failed>>
    /\ UNCHANGED <<condVars, probeVars, selVars, psVars, restVars, sqlVars, minVars, nullVars, sqliteVars, concVars, vsVars, tfVars>>

\* catalog.record_run with the outcome of the execution
ExRecord ==
    /\ ex_stage = "record"
    /\ cc_lock = 0
    /\ LET run_id == sqlite_sequence + 1
           output_paths ==
               IF ex_status = "success"
               THEN [none |-> FALSE,
                     list |-> [n \in 1..Len(ex_written) |-> SinkPath(ex_written[n])]]
               ELSE [none |-> TRUE, list |-> <<>>]
       IN  /\ runs' = Append(CreateTableIfNotExists(runs),
                             RunRow(run_id, PipelineName, ex_status, output_paths,
                                    StartedAt, ex_error))
           /\ sqlite_sequence' = run_id
           /\ cat_outcome' = ConnectionLastRowId(run_id)
    /\ catalog_exists' = TRUE
    /\ cat_last' = "record"
    /\ ex_stage' = "ended"
    /\ UNCHANGED <<cat_query, cat_result>>
    /\ UNCHANGED <<ex_config, ex_source, ex_dataset, ex_written, ex_status, ex_error, ex_failed>>
    /\ UNCHANGED <<condVars, probeVars, selVars, psVars, restVars, sqlVars, minVars, nullVars, sqliteVars, concVars, vsVars, tfVars>>

InitPipeline == CondIdle /\ ProbeIdle /\ SelIdle /\ PipeIdle /\ PsIdle /\ RestIdle /\ SqlIdle /\ MinIdle /\ NullIdle /\ SqliteIdle /\ CatIdle /\ ConcIdle /\ VsIdle /\ TfIdle
NextPipeline ==
    \/ ExStart
    \/ SelectFilter \/ SelectProbe \/ SelectRaise
    \/ ExSelected \/ ExExtract \/ ExTransform \/ ExCheck
    \/ ExWriteSqlite \/ ExWriteParquet \/ ExSucceed
    \/ ExOtherInvocationInserts \/ ExRecordTimesOut \/ ExRecord
SpecPipeline == InitPipeline /\ [][NextPipeline]_vars
\* the step of SelectFilter, told by what it does to sel_pc: no other step of
\* an execution takes sel_pc from filter to loop
FilterStep == sel_pc = "filter" /\ sel_pc' = "loop"

\* every step that can run does run: the stages run one after the other, and
\* each is a call that returns or raises
SpecPipelineFair ==
    /\ SpecPipeline
    /\ WF_vars(ExStart)
    /\ WF_sel_pc(FilterStep) /\ WF_vars(SelectProbe) /\ WF_vars(SelectRaise)
    /\ WF_vars(ExSelected) /\ WF_vars(ExExtract) /\ WF_vars(ExTransform)
    /\ WF_vars(ExCheck)
    /\ WF_vars(ExWriteSqlite) /\ WF_vars(ExWriteParquet) /\ WF_vars(ExSucceed)
    /\ WF_vars(ExRecordTimesOut) /\ WF_vars(ExRecord)


\* the catalog rows an ended execution left
EndedRecorded ==
    /\ Len(runs) = 1
    /\ runs[1].pipeline = PipelineName
    /\ runs[1].status \in {"success", "failed"}
    /\ runs[1].status = ex_status
    /\ (runs[1].status = "failed") <=> (ex_failed # "")
    /\ runs[1].error_message = ex_error
    /\ (runs[1].status = "failed") => (ex_error # "")

\* C22: every pipeline execution, in whichever stage it fails (selection,
\* extraction, transform, quality gate, sink write) or when it succeeds,
\* eventually ends, and when it has ended the catalog holds its one record, of
\* status success or failed, a failed record carrying the text of the error;
\* no execution ends without a record or with a record of another status
C22_EveryExecutionRecorded ==
    /\ <>(ex_stage = "ended")
    /\ []((ex_stage = "ended" => EndedRecorded) /\ (ex_stage # "ended" => runs = <<>>))

\* an execution has ended and the catalog holds no record of it
C22_EndedUnrecorded ==
    /\ ex_stage = "ended"
    /\ ex_status = "success"
    /\ runs = <<>>
    /\ cat_outcome.error = "OperationalError"

\* all the configured checks pass on the dataset: their conditions, stated
\* without the functions that evaluate them
ChecksPass(dataset, config) ==
    /\ Len(dataset) >= config.min_rows
    /\ \A n \in 1..Len(config.columns) :
          LET nulls == Cardinality({k \in 1..Len(dataset) :
                                       dataset[k][config.columns[n]] = NULL})
          IN  /\ Len(dataset) > 0
              /\ nulls * config.max[2] <= config.max[1] * Len(dataset)

\* C23: in every pipeline execution a sink is written only after all the
\* configured quality checks have passed on the transformed dataset: an
\* execution whose row-count or null-ratio check failed has written no sink, and
\* the checks leave the dataset as the transform produced it
C23_NoSinkWriteBeforeChecksPass ==
    /\ []((ex_written # <<>> \/ sqlite_table # Absent) => ChecksPass(ex_dataset, ex_config))
    /\ [](ex_failed = "check" =>
            /\ ~ChecksPass(ex_dataset, ex_config)
            /\ ex_written = <<>> /\ sqlite_table = Absent)
    /\ [][ex_stage = "check" => ex_dataset' = ex_dataset]_vars
    /\ [][(ex_written' # ex_written \/ sqlite_table' # sqlite_table) =>
            (ex_stage = "write" /\ ChecksPass(ex_dataset, ex_config))]_vars

\* an execution with two sinks configured whose null-ratio check failed has
\* ended with no sink written
C23_Witness ==
    /\ ex_stage = "ended"
    /\ ex_failed = "check"
    /\ ex_error = "Null ratio check failed"
    /\ Len(ex_config.sinks) = 2
    /\ ex_written = <<>> /\ sqlite_table = Absent

\* the enabled sources of the spec that primary entry i names
EnabledNamed(i) ==
    {k \in 1..Len(sel_spec.sources) :
        sel_spec.sources[k].name = sel_spec.primary[i] /\ SelEnabled(k)}

\* an execution has started, and the first entry of primary that names an
\* enabled source is a postgres source
PostgresFirst ==
    /\ ex_stage # "idle"
    /\ \E i \in 1..Len(sel_spec.primary) :
        /\ EnabledNamed(i) # {}
        /\ \A k \in EnabledNamed(i) : sel_spec.sources[k].type = "postgres"
        /\ \A q \in 1..(i - 1) : EnabledNamed(q) = {}

FirstEnabledEntry ==
    CHOOSE i \in 1..Len(sel_spec.primary) :
        EnabledNamed(i) # {} /\ \A q \in 1..(i - 1) : EnabledNamed(q) = {}

\* C27: when the first entry of primary that names an enabled source is a
\* postgres source, select_source returns that source after one probe that
\* answers True whatever the world is, the extraction of it fails, and the
\* execution fails with no sink written and no other source probed or
\* extracted afterwards
C27_PostgresSelectedThenFails ==
    PostgresFirst =>
        /\ \A n \in 1..Len(sel_probes) :
              /\ n = 1
              /\ sel_probes[n].pos = FirstEnabledEntry
              /\ sel_probes[n].src \in EnabledNamed(FirstEnabledEntry)
              /\ sel_probes[n].result = "True"
              /\ \A w \in ProbeWorlds :
                    test_source_connectivity(sel_spec.sources[sel_probes[n].src], w) = "True"
        /\ sel_pc = "done" =>
              sel_result = [kind |-> "return", name |-> sel_spec.primary[FirstEnabledEntry]]
        /\ ex_stage \notin {"idle", "select"} => ex_source \in EnabledNamed(FirstEnabledEntry)
        /\ ex_stage \notin {"idle", "select", "extract"} =>
              /\ ex_failed = "extract" /\ ex_status = "failed"
              /\ ex_error = "NotImplementedError"
        /\ ex_dataset = <<>> /\ ex_written = <<>>
        /\ \A n \in 1..Len(runs) : runs[n].status = "failed"

\* the run failed on the postgres source named first although the source named
\* second is an enabled file whose glob matches
C27_Witness ==
    /\ ex_stage = "ended"
    /\ PostgresFirst
    /\ Len(sel_spec.primary) = 2
    /\ FirstEnabledEntry = 1
    /\ \E k \in EnabledNamed(2) :
          /\ sel_spec.sources[k].type = "file"
          /\ SelReachable(k)
    /\ runs[1].status = "failed"
    /\ runs[1].error_message = "NotImplementedError"

====
